---- MODULE Spec2Model ----
(***************************************************************************)
(* vs2x: the VS Code theme parser (vscodeThemeParser.ts) and the Xcode     *)
(* theme generator (xcodeThemeGenerator.ts), as operators over JavaScript  *)
(* values, and the state machines that apply them to bounded inputs.      *)
(***************************************************************************)
EXTENDS Integers, Sequences, FiniteSets, TLC

VARIABLES
    pc,        \* position of the parse/translate pipeline, or of the color conversion
    json,      \* the decoded input document handed to parseVscodeTheme
    parsed,    \* what parseVscodeTheme returned or threw
    out,       \* what generateXcodeTheme returned or threw, with its local tables
    hex,       \* the first argument of a hexToXcodeColor call
    fallback,  \* the second argument of that call (Undefined: not given)
    color,     \* the value the call returned
    tables,    \* the module-level tables of xcodeThemeGenerator.ts
    calls,     \* the callers of generateXcodeTheme: theme, whether called, result
    app,       \* the state of the App component (its useState values)
    pending,   \* the callbacks the App has scheduled and that have not run yet
    downloads, \* the files the App has offered for download, oldest first
    events,    \* how many user events the App has handled
    api        \* one call of the fetch-theme handler: where it is, what it sent

vars == <<pc, json, parsed, out, hex, fallback, color, tables, calls, app, pending,
          downloads, events, api>>

pipeVars == <<json, parsed, out>>
hexVars == <<hex, fallback, color>>
callVars == <<tables, calls>>
appVars == <<app, pending, downloads, events>>
apiVars == <<api>>

(***************************************************************************)
(* JavaScript values.  A value is a record: k is its kind, and s, n, b, e  *)
(* hold the payload of a string (or the name of a built-in function), a    *)
(* number, a boolean, and an object or array.  The payload of an object is *)
(* the sequence of its own entries [key, val] in insertion order (the      *)
(* order Object.entries yields); an array is the same with its indices as  *)
(* keys.                                                                   *)
(***************************************************************************)
Value(kind, s, n, b, e) == [k |-> kind, s |-> s, n |-> n, b |-> b, e |-> e]

Undefined == Value("undefined", "", 0, FALSE, <<>>)
Null == Value("null", "", 0, FALSE, <<>>)
Bool(b) == Value("boolean", "", 0, b, <<>>)
Num(n) == Value("number", "", n, FALSE, <<>>)
Str(s) == Value("string", s, 0, FALSE, <<>>)
Obj(entries) == Value("object", "", 0, FALSE, entries)
Fn(name) == Value("function", name, 0, FALSE, <<>>)
Arr(elems) ==
    Value("array", "", 0, FALSE,
          [i \in 1..Len(elems) |-> [key |-> ToString(i - 1), val |-> elems[i]]])

Entry(key, val) == [key |-> key, val |-> val]

\* The elements of an array, in index order.
Elements(x) == [i \in 1..Len(x.e) |-> x.e[i].val]

\* ToBoolean: what `!x`, `x || y`, `x && y` and `if (x)` test.
Truthy(x) ==
    CASE x.k = "undefined" -> FALSE
      [] x.k = "null" -> FALSE
      [] x.k = "boolean" -> x.b
      [] x.k = "number" -> x.n # 0
      [] x.k = "string" -> x.s # ""
      [] OTHER -> TRUE

\* The typeof operator.
Typeof(x) ==
    CASE x.k \in {"null", "array", "object"} -> "object"
      [] OTHER -> x.k

\* a || b
Or(a, b) == IF Truthy(a) THEN a ELSE b

\* Array.isArray
IsArray(x) == x.k = "array"

\* The properties every object inherits from Object.prototype.
ObjectPrototypeNames ==
    {"constructor", "toString", "toLocaleString", "valueOf", "hasOwnProperty",
     "isPrototypeOf", "propertyIsEnumerable", "__proto__"}

\* The value of an inherited property: a built-in function, or the prototype
\* object itself for __proto__.
ObjectPrototypeValue(name) ==
    IF name = "__proto__" THEN Obj(<<>>)
    ELSE IF name = "constructor" THEN Fn("Object")
    ELSE Fn(name)

HasOwn(entries, key) == \E i \in 1..Len(entries) : entries[i].key = key

GetOwn(entries, key) ==
    LET i == CHOOSE i \in 1..Len(entries) : entries[i].key = key
    IN entries[i].val

\* x[key] for a value x that is neither undefined nor null (reading a
\* property of those throws a TypeError, which the callers model).
Get(x, key) ==
    IF x.k \in {"object", "array"} /\ HasOwn(x.e, key) THEN GetOwn(x.e, key)
    ELSE IF x.k = "array" /\ key = "length" THEN Num(Len(x.e))
    ELSE IF x.k = "string" /\ key = "length" THEN Num(Len(x.s))
    ELSE IF key \in ObjectPrototypeNames THEN ObjectPrototypeValue(key)
    ELSE Undefined

\* `key in obj` for a plain object with the given own entries.
In(key, entries) == HasOwn(entries, key) \/ key \in ObjectPrototypeNames

\* obj[key] = val on a plain object: an own key keeps its position, a new key is
\* appended.
Set(entries, key, val) ==
    IF HasOwn(entries, key)
    THEN [i \in 1..Len(entries) |->
            IF entries[i].key = key THEN Entry(key, val) ELSE entries[i]]
    ELSE Append(entries, Entry(key, val))

\* ToString, as used for a property key and in a template literal.  An array
\* gives its elements joined by ",", undefined and null elements giving the empty
\* string (Array.prototype.join).
RECURSIVE JSToString(_)
JSToString(x) ==
    CASE x.k = "string" -> x.s
      [] x.k = "number" -> ToString(x.n)
      [] x.k = "boolean" -> IF x.b THEN "true" ELSE "false"
      [] x.k = "null" -> "null"
      [] x.k = "undefined" -> "undefined"
      [] x.k = "object" -> "[object Object]"
      [] x.k = "function" -> "function " \o x.s \o "() { [native code] }"
      [] x.k = "array" ->
            LET part(i) == IF x.e[i].val.k \in {"undefined", "null"} THEN ""
                           ELSE JSToString(x.e[i].val)
                joined[i \in 0..Len(x.e)] ==
                    IF i = 0 THEN ""
                    ELSE IF i = 1 THEN part(1)
                    ELSE joined[i - 1] \o "," \o part(i)
            IN joined[Len(x.e)]

(***************************************************************************)
(* Strings.                                                                *)
(***************************************************************************)
CharAt(s, i) == SubSeq(s, i, i)

WhiteSpace == {" ", "\t"}

\* String.prototype.trim
RECURSIVE Trim(_)
Trim(s) ==
    IF s = "" THEN s
    ELSE IF CharAt(s, 1) \in WhiteSpace THEN Trim(SubSeq(s, 2, Len(s)))
    ELSE IF CharAt(s, Len(s)) \in WhiteSpace THEN Trim(SubSeq(s, 1, Len(s) - 1))
    ELSE s

\* s.indexOf(c) + 1 for a one-character c: 0 when c does not occur.
IndexOfChar(s, c) ==
    IF \E i \in 1..Len(s) : CharAt(s, i) = c
    THEN CHOOSE i \in 1..Len(s) :
            /\ CharAt(s, i) = c
            /\ \A j \in 1..(i - 1) : CharAt(s, j) # c
    ELSE 0

\* s.replace(c, ''): removes the first occurrence of c, wherever it is.
ReplaceFirst(s, c) ==
    LET i == IndexOfChar(s, c)
    IN IF i = 0 THEN s ELSE SubSeq(s, 1, i - 1) \o SubSeq(s, i + 1, Len(s))

\* s.split('.')[0]: the part of s before its first '.'.
FirstSegment(s) ==
    LET i == IndexOfChar(s, ".")
    IN IF i = 0 THEN s ELSE SubSeq(s, 1, i - 1)

\* h.split('').map(x => x + x).join('')
RECURSIVE DoubleChars(_)
DoubleChars(s) ==
    IF s = "" THEN ""
    ELSE CharAt(s, 1) \o CharAt(s, 1) \o DoubleChars(SubSeq(s, 2, Len(s)))

(***************************************************************************)
(* vscodeThemeParser.ts                                                    *)
(***************************************************************************)
\* The messages of the two errors parseVscodeTheme throws (in Chinese in the
\* source: "invalid VS Code theme file: not a valid JSON object" and
\* "invalid VS Code theme file: missing colors field").
ErrNotObject == "invalid VSCode theme file: not a valid JSON object"
ErrMissingColors == "invalid VSCode theme file: missing colors field"

\* A ParsedVscodeTheme no call has produced yet.
NoTheme ==
    [name |-> Undefined, type |-> Undefined, colors |-> Undefined,
     tokenColors |-> Undefined, semanticHighlighting |-> Undefined,
     semanticTokenColors |-> Undefined]

ThemeFields ==
    {"name", "type", "colors", "tokenColors", "semanticHighlighting",
     "semanticTokenColors"}

\* The outcome of a call: it threw an Error with a message, or returned a value.
Threw(message, empty) == [threw |-> TRUE, message |-> message, value |-> empty]
Returned(value) == [threw |-> FALSE, message |-> "", value |-> value]

\* parseVscodeTheme keeping only the colors whose value is a string.
parseVscodeThemeStringColors(j) ==
    IF ~Truthy(j) \/ Typeof(j) # "object" THEN Threw(ErrNotObject, NoTheme)
    ELSE IF ~Truthy(j) \/ ~Truthy(Get(j, "colors")) THEN Threw(ErrMissingColors, NoTheme)
    ELSE Returned(
        [name |-> Or(Get(j, "name"), Str("Untitled Theme")),
         type |-> Or(Get(j, "type"), Str("dark")),
         colors |-> Obj(SelectSeq(Get(j, "colors").e, LAMBDA en : en.val.k = "string")),
         tokenColors |-> Or(Get(j, "tokenColors"), Arr(<<>>)),
         semanticHighlighting |-> Bool(Get(j, "semanticHighlighting") = Bool(TRUE)),
         semanticTokenColors |-> Or(Get(j, "semanticTokenColors"), Obj(<<>>))])

\* parseVscodeTheme without the typeof test of its first check.
parseVscodeThemeNoTypeof(j) ==
    IF ~Truthy(j) THEN Threw(ErrNotObject, NoTheme)
    ELSE IF ~Truthy(j) \/ ~Truthy(Get(j, "colors")) THEN Threw(ErrMissingColors, NoTheme)
    ELSE Returned(
        [name |-> Or(Get(j, "name"), Str("Untitled Theme")),
         type |-> Or(Get(j, "type"), Str("dark")),
         colors |-> Or(Get(j, "colors"), Obj(<<>>)),
         tokenColors |-> Or(Get(j, "tokenColors"), Arr(<<>>)),
         semanticHighlighting |-> Bool(Get(j, "semanticHighlighting") = Bool(TRUE)),
         semanticTokenColors |-> Or(Get(j, "semanticTokenColors"), Obj(<<>>))])

\* parseVscodeTheme testing json.colors === undefined in its second check.
parseVscodeThemeUndefinedColors(j) ==
    IF ~Truthy(j) \/ Typeof(j) # "object" THEN Threw(ErrNotObject, NoTheme)
    ELSE IF ~Truthy(j) \/ Get(j, "colors") = Undefined THEN Threw(ErrMissingColors, NoTheme)
    ELSE Returned(
        [name |-> Or(Get(j, "name"), Str("Untitled Theme")),
         type |-> Or(Get(j, "type"), Str("dark")),
         colors |-> Or(Get(j, "colors"), Obj(<<>>)),
         tokenColors |-> Or(Get(j, "tokenColors"), Arr(<<>>)),
         semanticHighlighting |-> Bool(Get(j, "semanticHighlighting") = Bool(TRUE)),
         semanticTokenColors |-> Or(Get(j, "semanticTokenColors"), Obj(<<>>))])

\* parseVscodeTheme with semanticHighlighting: !!json.semanticHighlighting.
parseVscodeThemeLooseSemantic(j) ==
    IF ~Truthy(j) \/ Typeof(j) # "object" THEN Threw(ErrNotObject, NoTheme)
    ELSE IF ~Truthy(j) \/ ~Truthy(Get(j, "colors")) THEN Threw(ErrMissingColors, NoTheme)
    ELSE Returned(
        [name |-> Or(Get(j, "name"), Str("Untitled Theme")),
         type |-> Or(Get(j, "type"), Str("dark")),
         colors |-> Or(Get(j, "colors"), Obj(<<>>)),
         tokenColors |-> Or(Get(j, "tokenColors"), Arr(<<>>)),
         semanticHighlighting |-> Bool(Truthy(Get(j, "semanticHighlighting"))),
         semanticTokenColors |-> Or(Get(j, "semanticTokenColors"), Obj(<<>>))])

\* parseVscodeTheme with name: json.name.
parseVscodeThemeNoNameDefault(j) ==
    IF ~Truthy(j) \/ Typeof(j) # "object" THEN Threw(ErrNotObject, NoTheme)
    ELSE IF ~Truthy(j) \/ ~Truthy(Get(j, "colors")) THEN Threw(ErrMissingColors, NoTheme)
    ELSE Returned(
        [name |-> Get(j, "name"),
         type |-> Or(Get(j, "type"), Str("dark")),
         colors |-> Or(Get(j, "colors"), Obj(<<>>)),
         tokenColors |-> Or(Get(j, "tokenColors"), Arr(<<>>)),
         semanticHighlighting |-> Bool(Get(j, "semanticHighlighting") = Bool(TRUE)),
         semanticTokenColors |-> Or(Get(j, "semanticTokenColors"), Obj(<<>>))])

parseVscodeTheme(j) ==
    IF ~Truthy(j) \/ Typeof(j) # "object" THEN Threw(ErrNotObject, NoTheme)
    ELSE IF ~Truthy(j) \/ ~Truthy(Get(j, "colors")) THEN Threw(ErrMissingColors, NoTheme)
    ELSE Returned(
        [name |-> Or(Get(j, "name"), Str("Untitled Theme")),
         type |-> Or(Get(j, "type"), Str("dark")),
         colors |-> Or(Get(j, "colors"), Obj(<<>>)),
         tokenColors |-> Or(Get(j, "tokenColors"), Arr(<<>>)),
         semanticHighlighting |-> Bool(Get(j, "semanticHighlighting") = Bool(TRUE)),
         semanticTokenColors |-> Or(Get(j, "semanticTokenColors"), Obj(<<>>))])

(***************************************************************************)
(* xcodeThemeGenerator.ts: the color conversion                            *)
(***************************************************************************)
HexDigits == "0123456789abcdefABCDEF"

IsHexDigit(c) == IndexOfChar(HexDigits, c) # 0

\* The value of a hexadecimal digit, either case.
HexDigitValue(c) ==
    LET i == IndexOfChar(HexDigits, c)
    IN IF i <= 16 THEN i - 1 ELSE i - 7

NaN == [nan |-> TRUE, n |-> 0]
Finite(n) == [nan |-> FALSE, n |-> n]

\* The digits parseInt reads: the longest prefix of hexadecimal digits.
RECURSIVE HexPrefix(_)
HexPrefix(s) ==
    IF s # "" /\ IsHexDigit(CharAt(s, 1))
    THEN CharAt(s, 1) \o HexPrefix(SubSeq(s, 2, Len(s)))
    ELSE ""

RECURSIVE HexValue(_)
HexValue(digits) ==
    IF digits = "" THEN 0
    ELSE 16 * HexValue(SubSeq(digits, 1, Len(digits) - 1))
         + HexDigitValue(CharAt(digits, Len(digits)))

RECURSIVE SkipWhiteSpace(_)
SkipWhiteSpace(s) ==
    IF s # "" /\ CharAt(s, 1) \in WhiteSpace THEN SkipWhiteSpace(SubSeq(s, 2, Len(s)))
    ELSE s

\* parseInt(s, 16): leading white space is skipped, then a sign, then a 0x or 0X
\* prefix; the digits are read up to the first character that is not one, and
\* the result is NaN when there is none.
SignOf(t) == IF t # "" /\ CharAt(t, 1) = "-" THEN -1 ELSE 1

Unsigned(t) ==
    IF t # "" /\ CharAt(t, 1) \in {"+", "-"} THEN SubSeq(t, 2, Len(t)) ELSE t

StripRadixPrefix(u) ==
    IF Len(u) >= 2 /\ SubSeq(u, 1, 2) \in {"0x", "0X"} THEN SubSeq(u, 3, Len(u)) ELSE u

DigitsValue(digits) == IF digits = "" THEN NaN ELSE Finite(HexValue(digits))

WithSign(sign, x) == IF x.nan THEN NaN ELSE Finite(sign * x.n)

ParseTrimmed(t) ==
    WithSign(SignOf(t), DigitsValue(HexPrefix(StripRadixPrefix(Unsigned(t)))))

parseInt16(s) == ParseTrimmed(SkipWhiteSpace(s))

\* One million: the factor of the rounding to 6 decimals.
Million == 1000000

\* Channel with Math.floor in place of Math.round.
ChannelTruncated(x) ==
    IF x.nan THEN NaN ELSE Finite((x.n * Million) \div 255)

\* Math.round(n / 255 * 1000000) / 1000000 for an integer n, in millionths
\* (Math.round rounds a half up; no n * 1000000 / 255 lies on a half).
Channel(x) ==
    IF x.nan THEN NaN ELSE Finite((2 * x.n * Million + 255) \div 510)

\* The last i decimal digits of n, zero-padded on the left.
RECURSIVE Digits(_, _)
Digits(n, i) == IF i = 0 THEN "" ELSE Digits(n \div 10, i - 1) \o ToString(n % 10)

RECURSIVE StripTrailingZeros(_)
StripTrailingZeros(s) ==
    IF s # "" /\ CharAt(s, Len(s)) = "0" THEN StripTrailingZeros(SubSeq(s, 1, Len(s) - 1))
    ELSE s

\* Number -> string of a non-negative number given in millionths: at most 6
\* decimals, no trailing zeros, no decimal point for an integer.
NumberToString(m) ==
    IF m % Million = 0 THEN ToString(m \div Million)
    ELSE ToString(m \div Million) \o "." \o StripTrailingZeros(Digits(m % Million, 6))

\* The default of the parameter fallback = '1 1 1 1': it applies when the caller
\* gives no second argument (Undefined).
DefaultFallback(fb) == IF fb = Undefined THEN Str("1 1 1 1") ELSE fb

\* if (h.length === 3) h = h.split('').map(x => x + x).join('')
ExpandShort(h) == IF Len(h) = 3 THEN DoubleChars(h) ELSE h

\* A 6-digit color made transparent instead of opaque.
AppendAlphaTransparent(h) == IF Len(h) = 6 THEN h \o "00" ELSE h

\* if (h.length === 6) h += 'FF'
AppendAlpha(h) == IF Len(h) = 6 THEN h \o "FF" ELSE h

\* Math.round(parseInt(h.slice(i, i + 2), 16) / 255 * 1000000) / 1000000, for
\* the 1-based position i of the channel's first digit.
ChannelAt(h, i) == Channel(parseInt16(SubSeq(h, i, i + 1)))

\* The check that every channel is a number in [0, 1], and the template literal
\* `${r} ${g} ${b} ${a}`.
FloatQuad(r, g, b, a, fbk) ==
    IF \E x \in {r, g, b, a} : x.nan \/ x.n < 0 \/ x.n > Million THEN fbk
    ELSE Str(NumberToString(r.n) \o " " \o NumberToString(g.n) \o " "
             \o NumberToString(b.n) \o " " \o NumberToString(a.n))

\* From the length check on: h is the string after trimming, removing '#',
\* expanding and appending the alpha.
ConvertDigits(h, fbk) ==
    IF Len(h) # 8 THEN fbk
    ELSE FloatQuad(ChannelAt(h, 1), ChannelAt(h, 3), ChannelAt(h, 5), ChannelAt(h, 7), fbk)

\* The body of hexToXcodeColor, fbk being the fallback in force.
ConvertValue(hx, fbk) ==
    IF ~Truthy(hx) \/ Typeof(hx) # "string" THEN fbk
    ELSE ConvertDigits(AppendAlpha(ExpandShort(ReplaceFirst(Trim(hx.s), "#"))), fbk)

\* hexToXcodeColor(hex, fallback = '1 1 1 1'); fb is Undefined when the caller
\* gives no fallback.
hexToXcodeColor(hx, fb) == ConvertValue(hx, DefaultFallback(fb))

(***************************************************************************)
(* xcodeThemeGenerator.ts: the tables                                      *)
(***************************************************************************)
\* The Xcode keys every theme has, with their default colors.
xcodeRequiredKeys ==
    <<Entry("DVTSourceTextBackground", Str("0.0584239 0.0584239 0.0584239 1")),
      Entry("DVTSourceTextSelectionColor", Str("0.253963 0.279965 0.351202 1")),
      Entry("DVTSourceTextCurrentLineHighlightColor", Str("0.107309 0.113809 0.131618 1")),
      Entry("DVTSourceTextInsertionPointColor", Str("0.973 0.973 0.941 1")),
      Entry("xcode.syntax.plain", Str("0.973 0.973 0.941 1"))>>

\* VS Code color key -> Xcode key.
colorMapping ==
    <<Entry("editor.background", Str("DVTSourceTextBackground")),
      Entry("editor.foreground", Str("xcode.syntax.plain")),
      Entry("editor.selectionBackground", Str("DVTSourceTextSelectionColor")),
      Entry("editor.lineHighlightBackground", Str("DVTSourceTextCurrentLineHighlightColor")),
      Entry("editorCursor.foreground", Str("DVTSourceTextInsertionPointColor"))>>

\* VS Code token scope -> Xcode syntax key.
tokenMapping ==
    <<Entry("comment", Str("xcode.syntax.comment")),
      Entry("string", Str("xcode.syntax.string")),
      Entry("string.quoted", Str("xcode.syntax.string")),
      Entry("string.quoted.double", Str("xcode.syntax.string")),
      Entry("string.quoted.single", Str("xcode.syntax.string")),
      Entry("constant.character", Str("xcode.syntax.character")),
      Entry("string.character", Str("xcode.syntax.character")),
      Entry("character", Str("xcode.syntax.character")),
      Entry("keyword", Str("xcode.syntax.keyword")),
      Entry("number", Str("xcode.syntax.number")),
      Entry("variable", Str("xcode.syntax.identifier.variable")),
      Entry("function", Str("xcode.syntax.identifier.function")),
      Entry("type", Str("xcode.syntax.identifier.type")),
      Entry("class", Str("xcode.syntax.identifier.class")),
      Entry("constant", Str("xcode.syntax.identifier.constant")),
      Entry("attribute", Str("xcode.syntax.attribute"))>>

\* The priority list of generateXcodeTheme: the earlier, the more generic.
scopePriority ==
    <<Str("string"), Str("string.quoted"), Str("string.quoted.double"),
      Str("string.quoted.single"), Str("constant.character"), Str("string.character"),
      Str("character"), Str("comment"), Str("keyword"), Str("number"), Str("variable"),
      Str("function"), Str("type"), Str("class"), Str("constant"), Str("attribute")>>

\* The syntax keys every output has.
syntaxRequired ==
    <<"xcode.syntax.plain", "xcode.syntax.comment", "xcode.syntax.string",
      "xcode.syntax.keyword", "xcode.syntax.number",
      "xcode.syntax.identifier.variable", "xcode.syntax.identifier.constant">>

\* arr.indexOf(x): the 0-based index of the first element strictly equal to x,
\* or -1.
IndexOf(arr, x) ==
    IF \E i \in 1..Len(arr) : arr[i] = x
    THEN (CHOOSE i \in 1..Len(arr) :
            arr[i] = x /\ \A j \in 1..(i - 1) : arr[j] # x) - 1
    ELSE -1

\* The index given to a previous scope that is not found.
NoPrevIdx == 999

(***************************************************************************)
(* generateXcodeTheme, step 1: the base colors                             *)
(***************************************************************************)
\* SetBaseColor with the value itself as the fallback.
SetBaseColorVerbatim(xcodeColors, xcKey, value) ==
    Set(xcodeColors, xcKey, hexToXcodeColor(value, value))

\* SetBaseColor without the key's current value as the fallback.
SetBaseColorNoFallback(xcodeColors, xcKey, value) ==
    Set(xcodeColors, xcKey, hexToXcodeColor(value, Undefined))

\* xcodeColors[xcKey] = hexToXcodeColor(value, xcodeColors[xcKey] || '1 1 1 1')
SetBaseColor(xcodeColors, xcKey, value) ==
    Set(xcodeColors, xcKey,
        hexToXcodeColor(value, Or(Get(Obj(xcodeColors), xcKey), Str("1 1 1 1"))))

\* One iteration of the loop over Object.entries(colorMapping).
BaseColorStep(colors, xcodeColors, i) ==
    IF Truthy(Get(colors, colorMapping[i].key))
    THEN SetBaseColor(xcodeColors, colorMapping[i].val.s, Get(colors, colorMapping[i].key))
    ELSE xcodeColors

RECURSIVE BaseColorLoop(_, _, _)
BaseColorLoop(colors, xcodeColors, i) ==
    IF i > Len(colorMapping) THEN xcodeColors
    ELSE BaseColorLoop(colors, BaseColorStep(colors, xcodeColors, i), i + 1)

\* XcodeColors starting from an empty table instead of the defaults.
XcodeColorsNoDefaults(theme) == BaseColorLoop(theme.colors, <<>>, 1)

\* xcodeColors after step 1, for a theme whose colors is neither undefined nor null.
XcodeColors(theme) == BaseColorLoop(theme.colors, xcodeRequiredKeys, 1)

(***************************************************************************)
(* generateXcodeTheme, step 2: the token colors                            *)
(***************************************************************************)
\* The state of the token loops: whether a TypeError was thrown, and syntaxColors.
Going(syntaxColors) == [threw |-> FALSE, message |-> "", syntaxColors |-> syntaxColors]
Failed(message, syntaxColors) ==
    [threw |-> TRUE, message |-> message, syntaxColors |-> syntaxColors]

\* tokenMapping[s] || tokenMapping[s.split('.')?.[0]]; s.split throws for an s
\* that is not a string (undefined, null, or a value without a split method).
MappedThrows(s) ==
    /\ ~Truthy(Get(Obj(tokenMapping), JSToString(s)))
    /\ s.k # "string"

Mapped(s) ==
    Or(Get(Obj(tokenMapping), JSToString(s)), Get(Obj(tokenMapping), FirstSegment(s.s)))

\* PrevScope without the comparison of the colors: the first scope of the table
\* that maps to the key.
PrevScopeAnyColor(mapped, stored, converted) ==
    IF \E i \in 1..Len(tokenMapping) : tokenMapping[i].val = mapped
    THEN Str(tokenMapping[CHOOSE i \in 1..Len(tokenMapping) :
                /\ tokenMapping[i].val = mapped
                /\ \A j \in 1..(i - 1) : tokenMapping[j].val # mapped].key)
    ELSE Undefined

\* Object.keys(tokenMapping).find(key => tokenMapping[key] === mapped &&
\*     syntaxColors[mapped] === hexToXcodeColor(settings.foreground)),
\* converted being hexToXcodeColor(settings.foreground).
PrevScope(mapped, stored, converted) ==
    IF stored = converted /\ \E i \in 1..Len(tokenMapping) : tokenMapping[i].val = mapped
    THEN Str(tokenMapping[CHOOSE i \in 1..Len(tokenMapping) :
                /\ tokenMapping[i].val = mapped
                /\ \A j \in 1..(i - 1) : tokenMapping[j].val # mapped].key)
    ELSE Undefined

\* prevScope ? scopePriority.indexOf(prevScope) : 999
PrevIdx(prevScope) ==
    IF Truthy(prevScope) THEN IndexOf(scopePriority, prevScope) ELSE NoPrevIdx

\* HasPriority without the test that the current scope is listed.
HasPriorityUnlisted(currIdx, prevIdx) == prevIdx = -1 \/ currIdx < prevIdx

\* currIdx > -1 && (prevIdx === -1 || currIdx < prevIdx)
HasPriority(currIdx, prevIdx) == currIdx > -1 /\ (prevIdx = -1 \/ currIdx < prevIdx)

\* Whether the scope s replaces the color stored for its key.
Overwrites(s, mapped, stored, converted) ==
    HasPriority(IndexOf(scopePriority, s), PrevIdx(PrevScope(mapped, stored, converted)))

\* The assignment to syntaxColors[mapped], key being mapped as a property key and
\* converted being hexToXcodeColor(settings.foreground).
Assign(s, mapped, key, converted, syntaxColors) ==
    IF ~In(key, syntaxColors) \/ Overwrites(s, mapped, Get(Obj(syntaxColors), key), converted)
    THEN Set(syntaxColors, key, converted)
    ELSE syntaxColors

\* if (mapped && settings.foreground) { ... }
MapScope(s, mapped, foreground, syntaxColors) ==
    IF Truthy(mapped) /\ Truthy(foreground)
    THEN Assign(s, mapped, JSToString(mapped), hexToXcodeColor(foreground, Undefined),
                syntaxColors)
    ELSE syntaxColors

\* The body of the loop over the scopes of one token rule.
ScopeStep(s, settings, syntaxColors) ==
    IF MappedThrows(s)
    THEN Failed("TypeError: s.split is not a function", syntaxColors)
    ELSE Going(MapScope(s, Mapped(s), Get(settings, "foreground"), syntaxColors))

RECURSIVE ScopeLoop(_, _, _, _)
ScopeLoop(scopes, settings, acc, j) ==
    IF acc.threw \/ j > Len(scopes) THEN acc
    ELSE ScopeLoop(scopes, settings, ScopeStep(scopes[j], settings, acc.syntaxColors), j + 1)

\* The scopes of a token rule: its scope array, or its scope string alone, or none.
ScopeList(scope) ==
    IF IsArray(scope) THEN Elements(scope)
    ELSE IF Typeof(scope) = "string" THEN <<scope>>
    ELSE <<>>

Scopes(token) == ScopeList(Get(token, "scope"))

\* The body of the loop over theme.tokenColors; token.scope throws for a token
\* that is undefined or null.
TokenStep(token, syntaxColors) ==
    IF token.k \in {"undefined", "null"}
    THEN Failed("TypeError: Cannot read properties of null (reading 'scope')", syntaxColors)
    ELSE ScopeLoop(Scopes(token), Or(Get(token, "settings"), Obj(<<>>)),
                   Going(syntaxColors), 1)

RECURSIVE TokenLoop(_, _, _)
TokenLoop(tokens, acc, i) ==
    IF acc.threw \/ i > Len(tokens) THEN acc
    ELSE TokenLoop(tokens, TokenStep(tokens[i], acc.syntaxColors), i + 1)

\* syntaxColors after the token loops (or the TypeError they threw).
TokenColors(theme) ==
    IF IsArray(theme.tokenColors) THEN TokenLoop(Elements(theme.tokenColors), Going(<<>>), 1)
    ELSE Going(<<>>)

\* The loop over syntaxRequired: a missing key takes the plain color.
\* FillRequired taking the plain color of the default table.
RECURSIVE FillRequiredFromDefaults(_, _, _)
FillRequiredFromDefaults(syntaxColors, xcodeColors, i) ==
    IF i > Len(syntaxRequired) THEN syntaxColors
    ELSE FillRequiredFromDefaults(
            IF ~Truthy(Get(Obj(syntaxColors), syntaxRequired[i]))
            THEN Set(syntaxColors, syntaxRequired[i],
                     Get(Obj(xcodeRequiredKeys), "xcode.syntax.plain"))
            ELSE syntaxColors,
            xcodeColors, i + 1)

RECURSIVE FillRequired(_, _, _)
FillRequired(syntaxColors, xcodeColors, i) ==
    IF i > Len(syntaxRequired) THEN syntaxColors
    ELSE FillRequired(
            IF ~Truthy(Get(Obj(syntaxColors), syntaxRequired[i]))
            THEN Set(syntaxColors, syntaxRequired[i],
                     Or(Get(Obj(xcodeColors), "xcode.syntax.plain"),
                        Get(Obj(xcodeRequiredKeys), "xcode.syntax.plain")))
            ELSE syntaxColors,
            xcodeColors, i + 1)

(***************************************************************************)
(* generateXcodeTheme, steps 3 and 4: the plist                            *)
(***************************************************************************)
\* `<key>${k}</key>\n<string>${v}</string>` for each entry.
KeyStringItems(entries) ==
    [i \in 1..Len(entries) |->
        "<key>" \o entries[i].key \o "</key>\n<string>"
            \o JSToString(entries[i].val) \o "</string>"]

\* PlistItems without the test of theme.name.
PlistItemsNameAlways(theme, xcodeColors, syntaxColors) ==
    KeyStringItems(xcodeColors)
        \o <<"<key>DVTSourceTextSyntaxColors</key>\n<dict>">>
        \o KeyStringItems(syntaxColors)
        \o <<"</dict>">>
        \o <<"<key>XCThemeName</key>\n<string>" \o JSToString(theme.name) \o "</string>">>

\* plistItems: the base colors, the nested dict of syntax colors, and the name
\* entry when theme.name is truthy.
PlistItems(theme, xcodeColors, syntaxColors) ==
    KeyStringItems(xcodeColors)
        \o <<"<key>DVTSourceTextSyntaxColors</key>\n<dict>">>
        \o KeyStringItems(syntaxColors)
        \o <<"</dict>">>
        \o (IF Truthy(theme.name)
            THEN <<"<key>XCThemeName</key>\n<string>" \o JSToString(theme.name) \o "</string>">>
            ELSE <<>>)

\* items.join(sep), as the sequence of the pieces whose concatenation it is.
RECURSIVE Join(_, _)
Join(items, sep) ==
    IF items = <<>> THEN <<>>
    ELSE IF Len(items) = 1 THEN <<items[1]>>
    ELSE <<items[1], sep>> \o Join(Tail(items), sep)

PlistHeader ==
    "<?xml version=\"1.0\" encoding=\"UTF-8\"?>\n<!DOCTYPE plist PUBLIC \"-//Apple//DTD PLIST 1.0//EN\" \"http://www.apple.com/DTDs/PropertyList-1.0.dtd\">\n<plist version=\"1.0\">\n<dict>\n"

PlistFooter == "\n</dict>\n</plist>\n"

\* What a call of generateXcodeTheme gave: the Error it threw, or the XML string
\* it returned with the two tables it was built from.  The string is held as
\* the sequence of the pieces the template literal concatenates.
Output(threw, message, xml, xcodeColors, syntaxColors) ==
    [threw |-> threw, message |-> message, xml |-> xml,
     xcodeColors |-> xcodeColors, syntaxColors |-> syntaxColors]

\* Steps 3 and 4.
Serialize(theme, xcodeColors, syntaxColors) ==
    Output(FALSE, "",
           <<PlistHeader>> \o Join(PlistItems(theme, xcodeColors, syntaxColors), "\n")
               \o <<PlistFooter>>,
           xcodeColors, syntaxColors)

\* From the end of the token loops on.
Finish(theme, xcodeColors, tokens) ==
    IF tokens.threw THEN Output(TRUE, tokens.message, <<>>, <<>>, <<>>)
    ELSE Serialize(theme, xcodeColors, FillRequired(tokens.syntaxColors, xcodeColors, 1))

\* generateXcodeTheme(theme); theme.colors[vsKey] throws for colors undefined or
\* null.
generateXcodeTheme(theme) ==
    IF theme.colors.k \in {"undefined", "null"}
    THEN Output(TRUE, "TypeError: Cannot read properties of undefined (reading 'editor.background')",
                <<>>, <<>>, <<>>)
    ELSE Finish(theme, XcodeColors(theme), TokenColors(theme))

(***************************************************************************)
(* generateXcodeTheme against the module-level tables as they are when it  *)
(* is called.  An object is held with a mark telling whether it is a new   *)
(* object or the module-level one, so that a write through it is seen to   *)
(* change the module's table or not.                                       *)
(***************************************************************************)
\* const xcodeColors = xcodeRequiredKeys: the module-level object itself.
SpreadAlias(table) == [fresh |-> FALSE, entries |-> table]

\* { ...xcodeRequiredKeys }: a new object with the entries of the table.
Spread(table) == [fresh |-> TRUE, entries |-> table]

\* xcodeColors after step 1, xcodeColors being the given object.
LocalColors(object, theme) == BaseColorLoop(theme.colors, object.entries, 1)

\* The module-level xcodeRequiredKeys after a call, the writes of step 1 having
\* gone to the given object.
WrittenTable(object, table, theme) ==
    IF object.fresh \/ theme.colors.k \in {"undefined", "null"} THEN table
    ELSE LocalColors(object, theme)

TableAfter(table, theme) == WrittenTable(Spread(table), table, theme)

\* generateXcodeTheme(theme) with the module-level xcodeRequiredKeys as given.
generateXcodeThemeWith(table, theme) ==
    IF theme.colors.k \in {"undefined", "null"}
    THEN Output(TRUE, "TypeError: Cannot read properties of undefined (reading 'editor.background')",
                <<>>, <<>>, <<>>)
    ELSE Finish(theme, LocalColors(Spread(table), theme), TokenColors(theme))

(***************************************************************************)
(* The inputs.                                                             *)
(***************************************************************************)
\* The longest tokenColors array, the most keys of a colors object, and the
\* longest free-form color string the model draws.
MaxRules == 2
MaxColorKeys == 2
MaxRaw == 3

\* All sequences over S of length at most n.
RECURSIVE SeqsUpTo(_, _)
SeqsUpTo(S, n) ==
    IF n = 0 THEN {<<>>}
    ELSE SeqsUpTo(S, n - 1) \cup
         {Append(q, x) : q \in {r \in SeqsUpTo(S, n - 1) : Len(r) = n - 1}, x \in S}

\* All strings over the characters C of length at most n.
RECURSIVE StringsUpTo(_, _)
StringsUpTo(C, n) ==
    IF n = 0 THEN {""}
    ELSE StringsUpTo(C, n - 1) \cup
         {q \o c : q \in {r \in StringsUpTo(C, n - 1) : Len(r) = n - 1}, c \in C}

\* All concatenations of exactly n strings of P.
RECURSIVE Concats(_, _)
Concats(P, n) ==
    IF n = 0 THEN {""} ELSE {q \o x : q \in Concats(P, n - 1), x \in P}

\* Color values of a theme's colors object: well-formed, malformed, not a string.
ColorValues ==
    {Str("#112233"), Str("#FFF"), Str("#80808080"), Str("not-a-color"),
     Str("#12345G"), Str(""), Num(5), Null}

\* The colors objects with at most n of the mapped VS Code keys, in table order.
RECURSIVE ColorEntries(_, _)
ColorEntries(i, n) ==
    IF i > Len(colorMapping) THEN {<<>>}
    ELSE ColorEntries(i + 1, n) \cup
         (IF n = 0 THEN {}
          ELSE {<<Entry(colorMapping[i].key, v)>> \o rest :
                    v \in ColorValues, rest \in ColorEntries(i + 1, n - 1)})

ColorObjects == {Obj(e) : e \in ColorEntries(1, MaxColorKeys)}

\* A token rule { scope, settings: { foreground } }.
Rule(scope, foreground) ==
    Obj(<<Entry("scope", scope),
          Entry("settings", Obj(<<Entry("foreground", foreground)>>))>>)

Foregrounds == {Str("#FF0000"), Str("#00FF00")}

\* The entries of tokenColors the model combines into arrays: rules with one
\* scope and a color, a rule with a malformed color, rules with a scope list,
\* and a null entry.
TokenRules ==
    {Rule(Str(n), f) :
        n \in {"string", "string.quoted.double", "string.template", "comment"},
        f \in Foregrounds}
    \cup {Rule(Str(n), Str("#FF0000")) :
            n \in {"constant.character", "constant.numeric", "meta.string", "constructor"}}
    \cup {Rule(Str("string"), Str("red")),
          Rule(Arr(<<Str("string"), Str("string.quoted.double")>>), Str("#FF0000")),
          Rule(Arr(<<Str("string.quoted.double"), Str("string")>>), Str("#00FF00")),
          Null}

\* Entries of other shapes that a JSON document can hold, drawn alone: further
\* scopes and scope lists, a missing or empty color, missing settings or scope,
\* and scopes and entries that are not strings and objects.
OddRules ==
    {Rule(Str(n), Str("#00FF00")) :
        n \in {"constant.character", "constant.numeric", "meta.string", "constructor"}}
    \cup {Rule(Str("comment"), Str("red")),
          Rule(Str("keyword"), Str("#12345G")),
          Rule(Str("toString.x"), Str("#FF0000")),
          Rule(Str("string"), Str("")),
          Obj(<<Entry("scope", Str("string")), Entry("settings", Obj(<<>>))>>),
          Obj(<<Entry("scope", Str("string"))>>),
          Rule(Arr(<<Str("string.template"), Str("string")>>), Str("#FF0000")),
          Rule(Arr(<<Str("comment"), Str("meta.string")>>), Str("#00FF00")),
          Num(5),
          Rule(Num(5), Str("#FF0000")),
          Obj(<<Entry("settings", Obj(<<Entry("foreground", Str("#FF0000"))>>))>>),
          Rule(Arr(<<>>), Str("#FF0000")),
          Rule(Arr(<<Num(5)>>), Str("#FF0000")),
          Rule(Arr(<<Null>>), Str("#FF0000")),
          Rule(Arr(<<Arr(<<Str("comment")>>)>>), Str("#FF0000"))}

TokenArrays ==
    {Arr(q) : q \in SeqsUpTo(TokenRules, MaxRules)} \cup {Arr(<<r>>) : r \in OddRules}

\* A theme document with the six fields of VscodeTheme; Undefined leaves one out.
Document(name, type, colors, tokenColors, semanticHighlighting, semanticTokenColors) ==
    LET all == <<Entry("name", name), Entry("type", type), Entry("colors", colors),
                 Entry("tokenColors", tokenColors),
                 Entry("semanticHighlighting", semanticHighlighting),
                 Entry("semanticTokenColors", semanticTokenColors)>>
    IN Obj(SelectSeq(all, LAMBDA en : en.val.k # "undefined"))

\* Inputs that are not theme objects.
NonObjects ==
    {Undefined, Null, Bool(TRUE), Bool(FALSE), Num(0), Num(5), Str(""), Str("abc"),
     Fn("f"), Arr(<<>>), Arr(<<Num(1)>>)}

\* Documents that vary every field over absent, falsy and truthy values.
FieldDocuments ==
    {Document(n, t, c, tc, sh, stc) :
        n \in {Undefined, Str("Monokai"), Str(""), Null, Arr(<<>>)},
        t \in {Undefined, Str("light"), Str("")},
        c \in {Undefined, Null, Str(""), Num(0), Bool(FALSE), Obj(<<>>),
               Obj(<<Entry("editor.background", Str("#112233"))>>),
               Str("abc"), Arr(<<>>)},
        tc \in {Undefined, Null, Arr(<<Rule(Str("comment"), Str("#FF0000"))>>),
                Num(5)},
        sh \in {Undefined, Bool(TRUE), Bool(FALSE), Str("true")},
        stc \in {Undefined, Null, Obj(<<Entry("variable", Str("#FF0000"))>>)}}

\* Documents that vary the colors object.
ColorDocuments ==
    {Document(Undefined, Undefined, c, Undefined, Undefined, Undefined) :
        c \in ColorObjects}

\* Documents that vary the token rules, without and with an editor foreground.
TokenDocuments ==
    {Document(Undefined, Undefined, c, tc, Undefined, Undefined) :
        c \in {Obj(<<>>), Obj(<<Entry("editor.foreground", Str("#112233"))>>)},
        tc \in TokenArrays}

JsonInputs == NonObjects \cup FieldDocuments \cup ColorDocuments \cup TokenDocuments

\* Arguments of hexToXcodeColor: values that are not strings, all short strings
\* over digits and other characters, strings of three or four channel pairs with
\* and without '#' and padding, and some longer malformed strings.
RawChars == {"0", "8", "F", "G", "#", " "}

ChannelPairs == {"00", "80", "FF", "1a", "0G", "G0", "0x", "-1"}

PairStrings == Concats(ChannelPairs, 3) \cup Concats(ChannelPairs, 4)

ShortStrings == Concats({"0", "8", "F", "a"}, 3)

HexInputs ==
    {Undefined, Null, Num(0), Num(5), Bool(TRUE), Obj(<<>>), Arr(<<>>)}
    \cup {Str(r) : r \in StringsUpTo(RawChars, MaxRaw)}
    \cup {Str(r) : r \in PairStrings}
    \cup {Str("#" \o r) : r \in PairStrings}
    \cup {Str(" #" \o r \o "\t") : r \in Concats({"00", "80", "FF", "1a"}, 3)}
    \cup {Str(r) : r \in ShortStrings}
    \cup {Str("#" \o r) : r \in ShortStrings}
    \cup {Str("\t#" \o r \o " ") : r \in ShortStrings}
    \cup {Str("000#000"), Str("FFF#FFF"), Str("12#3456"), Str("#12345G"),
          Str("not-a-color"), Str("##000000"), Str("#0000000"), Str("# 000000")}

Fallbacks ==
    {Undefined, Str("0.0584239 0.0584239 0.0584239 1"), Str("0.973 0.973 0.941 1")}

(***************************************************************************)
(* The state machines.                                                     *)
(***************************************************************************)
NotParsed == Returned(NoTheme)

\* The module-level tables as the module's initialization leaves them.
ModuleTables ==
    [xcodeRequiredKeys |-> xcodeRequiredKeys, colorMapping |-> colorMapping,
     tokenMapping |-> tokenMapping]

\* The App's state after its first render: the initial values of its useState
\* calls.
InitialApp ==
    [selectedFile |-> Null, themeUrl |-> "", isValidThemeUrl |-> FALSE,
     urlFetchSuccess |-> FALSE, parsedTheme |-> Null, parseError |-> Null,
     isProcessing |-> FALSE, isFetchingUrl |-> FALSE]

NoOutput == Output(FALSE, "", <<>>, <<>>, <<>>)

\* The response of the upstream server as the handler sees it: response.ok,
\* response.status, headers.get('content-type') and the body text with what
\* jsonc-parser makes of it.
Upstream(ok, status, contentType, text) ==
    [ok |-> ok, status |-> status, contentType |-> contentType, text |-> text]

\* A body text: its characters, whether jsonc-parser reports errors for it
\* (with allowTrailingComma) and the value it returns.
Text(raw, errors, value) == [raw |-> raw, errors |-> errors, value |-> value]

NoUpstream == Upstream(FALSE, 0, Null, Text("", <<>>, Undefined))

\* One call of the fetch-theme handler: its position, the request, the URL it
\* fetches, the upstream response and the responses it has sent through res.
ApiCall(phase, method, body, url, upstream, sent) ==
    [phase |-> phase, method |-> method, body |-> body, url |-> url,
     upstream |-> upstream, sent |-> sent]

\* No request has reached the handler.
NoRequest == ApiCall("idle", "", Undefined, "", NoUpstream, <<>>)

\* A caller hands a decoded document to the parser and, when the parser accepts
\* it, the theme to the generator.
Init ==
    /\ pc = "start"
    /\ json \in JsonInputs
    /\ parsed = NotParsed
    /\ out = NoOutput
    /\ hex = Undefined
    /\ fallback = Undefined
    /\ color = Undefined
    /\ tables = ModuleTables
    /\ calls = <<>>
    /\ app = InitialApp
    /\ pending = <<>>
    /\ downloads = <<>>
    /\ events = 0
    /\ api = NoRequest

Parse ==
    /\ pc = "start"
    /\ parsed' = parseVscodeTheme(json)
    /\ pc' = IF parsed'.threw THEN "rejected" ELSE "parsed"
    /\ UNCHANGED <<json, out, hexVars, apiVars, callVars, appVars>>

Translate ==
    /\ pc = "parsed"
    /\ out' = generateXcodeTheme(parsed.value)
    /\ pc' = "translated"
    /\ UNCHANGED <<json, parsed, hexVars, apiVars, callVars, appVars>>

Next == Parse \/ Translate

Spec == Init /\ [][Next]_vars

\* Themes handed to generateXcodeTheme directly: with and without a name, base
\* colors and token rules, and with markup characters in every place a theme
\* can hold a string.
Theme(name, colors, tokenColors) ==
    [name |-> Str(name), type |-> Str("dark"), colors |-> Obj(colors),
     tokenColors |-> Arr(tokenColors), semanticHighlighting |-> Bool(FALSE),
     semanticTokenColors |-> Obj(<<>>)]

CanonicalThemes ==
    {Theme("", <<>>, <<>>),
     Theme("Monokai", <<Entry("editor.background", Str("#112233"))>>,
           <<Rule(Str("string"), Str("#FF0000"))>>),
     Theme("", <<Entry("editor.background", Str("not-a-color")),
                 Entry("editor.foreground", Str("#FFF"))>>,
           <<Rule(Str("keyword.control"), Str("#00FF00")),
             Rule(Str("string.template"), Str("#FF0000"))>>),
     Theme("Night Owl", <<Entry("editor.background", Str("<b>&amp;"))>>,
           <<Rule(Str("comment.<&>"), Str("<&>")), Rule(Str("<&>"), Str("#00FF00")),
             Rule(Str("string"), Str("#0F0<"))>>),
     Theme("A<B&C", <<>>, <<>>)}

\* The number of callers of generateXcodeTheme.
MaxCallers == 3

NotCalled(theme) == [theme |-> theme, called |-> FALSE, out |-> NoOutput]

\* Several callers hold a theme each and call generateXcodeTheme, in any order;
\* a call runs to completion before the next starts.
InitCalls ==
    /\ pc = "calls"
    /\ json = Undefined
    /\ parsed = NotParsed
    /\ out = NoOutput
    /\ hex = Undefined
    /\ fallback = Undefined
    /\ color = Undefined
    /\ tables = ModuleTables
    /\ calls \in [1..MaxCallers -> {NotCalled(t) : t \in CanonicalThemes}]
    /\ app = InitialApp
    /\ pending = <<>>
    /\ downloads = <<>>
    /\ events = 0
    /\ api = NoRequest

Invoke(c) ==
    /\ pc = "calls"
    /\ ~calls[c].called
    /\ calls' = [calls EXCEPT ![c].called = TRUE,
                              ![c].out = generateXcodeThemeWith(tables.xcodeRequiredKeys,
                                                                calls[c].theme)]
    /\ tables' = [tables EXCEPT !.xcodeRequiredKeys = TableAfter(@, calls[c].theme)]
    /\ UNCHANGED <<pc, pipeVars, hexVars, apiVars, appVars>>

NextCalls == \E c \in 1..MaxCallers : Invoke(c)

SpecCalls == InitCalls /\ [][NextCalls]_vars

\* A caller converts one color.
InitHex ==
    /\ pc = "hex"
    /\ json = Undefined
    /\ parsed = NotParsed
    /\ out = NoOutput
    /\ hex \in HexInputs
    /\ fallback \in Fallbacks
    /\ color = Undefined
    /\ tables = ModuleTables
    /\ calls = <<>>
    /\ app = InitialApp
    /\ pending = <<>>
    /\ downloads = <<>>
    /\ events = 0
    /\ api = NoRequest

Convert ==
    /\ pc = "hex"
    /\ color' = hexToXcodeColor(hex, fallback)
    /\ pc' = "converted"
    /\ UNCHANGED <<pipeVars, hex, fallback, callVars, apiVars, appVars>>

NextHex == Convert

SpecHex == InitHex /\ [][NextHex]_vars

(***************************************************************************)
(* App.tsx: the App component.  Its state is the record app; a callback it *)
(* has handed to the browser (a file read, a timer, a fetch) waits in      *)
(* pending with the values its closure captured, and runs as one step.     *)
(***************************************************************************)
\* s.lastIndexOf(c) + 1 for a one-character c: 0 when c does not occur.
LastIndexOfChar(s, c) ==
    IF \E i \in 1..Len(s) : CharAt(s, i) = c
    THEN CHOOSE i \in 1..Len(s) :
            /\ CharAt(s, i) = c
            /\ \A j \in (i + 1)..Len(s) : CharAt(s, j) # c
    ELSE 0

\* name.replace(/\.[^.]+$/, ''): removes the last '.' and what follows it, when
\* something follows it.
StripExtension(name) ==
    IF LastIndexOfChar(name, ".") = 0 \/ LastIndexOfChar(name, ".") = Len(name) THEN name
    ELSE SubSeq(name, 1, LastIndexOfChar(name, ".") - 1)

StartsWith(t, prefix) == Len(t) >= Len(prefix) /\ SubSeq(t, 1, Len(prefix)) = prefix

\* name.endsWith(suffix)
EndsWith(name, suffix) ==
    /\ Len(name) >= Len(suffix)
    /\ SubSeq(name, Len(name) - Len(suffix) + 1, Len(name)) = suffix

\* What the text of a file or of a response decodes to: nothing (the text is
\* empty), parse errors, or a JSON value.
EmptyText == [kind |-> "empty", json |-> Undefined]
InvalidText == [kind |-> "invalid", json |-> Undefined]
Decoded(value) == [kind |-> "json", json |-> value]

\* A File: its name, its MIME type and its content.
File(name, type, content) == [name |-> name, type |-> type, content |-> content]

NoFile == File("", "", EmptyText)

\* A pending callback: its kind and the values its closure holds.
Callback(kind, file, theme, url) == [kind |-> kind, file |-> file, theme |-> theme, url |-> url]

\* The sequence without its i-th element.
Without(q, i) == SubSeq(q, 1, i - 1) \o SubSeq(q, i + 1, Len(q))

\* clearAllInputs()
clearAllInputs(a) ==
    [a EXCEPT !.selectedFile = Null, !.themeUrl = "", !.parsedTheme = Null,
              !.parseError = Null, !.urlFetchSuccess = FALSE, !.isValidThemeUrl = FALSE]

\* The state handleFileSelected(file) leaves; it also starts a file read.
FileSelected(a, file) ==
    [clearAllInputs(a) EXCEPT !.selectedFile = file, !.isProcessing = TRUE,
                              !.parseError = Null]

\* A catch block that shows the message and leaves the busy flag set.
ShowErrorStillBusy(a, message) == [a EXCEPT !.parseError = Str(message)]

\* The catch blocks: an error message is shown and the busy flag cleared.
ShowError(a, message) == [a EXCEPT !.parseError = Str(message), !.isProcessing = FALSE]

\* theme = { ...theme, name }
WithName(theme, name) == [theme EXCEPT !.name = Str(name)]

\* The theme the 500 ms timer stores: the parsed theme, named after the file
\* when the document has no name and the file has one.
NamedAfterFile(doc, theme, file) ==
    IF ~Truthy(Get(doc, "name")) /\ file.name # ""
    THEN WithName(theme, StripExtension(file.name))
    ELSE theme

\* The body of the 500 ms timer once the text is decoded without errors.
StoreParsed(a, doc, result, file) ==
    IF result.threw THEN ShowError(a, "parsingError: " \o result.message)
    ELSE [a EXCEPT !.parsedTheme = NamedAfterFile(doc, result.value, file),
                   !.isProcessing = FALSE]

\* The file name without the fallback for a falsy name.
DownloadNameNoFallback(theme) == JSToString(theme.name) \o ".xccolortheme"

\* `${parsedTheme.name || 'theme'}.xccolortheme`
DownloadName(theme) == JSToString(Or(theme.name, Str("theme"))) \o ".xccolortheme"

Download(filename, xml) == [filename |-> filename, xml |-> xml]

\* The files a user chooses or drops.
NamedDocument == Document(Str("Monokai"), Undefined, Obj(<<>>), Undefined, Undefined, Undefined)

UnnamedDocument ==
    Document(Undefined, Undefined, Obj(<<Entry("editor.background", Str("#112233"))>>),
             Arr(<<Rule(Str("string"), Str("#FF0000"))>>), Undefined, Undefined)

NumberNameDocument == Document(Num(1984), Undefined, Obj(<<>>), Undefined, Undefined, Undefined)

NullRuleDocument ==
    Document(Str("Broken"), Undefined, Obj(<<>>), Arr(<<Null>>), Undefined, Undefined)

AppFiles ==
    {File("monokai.json", "application/json", Decoded(NamedDocument)),
     File("dracula.jsonc", "", Decoded(NumberNameDocument)),
     File(".json", "application/json", Decoded(UnnamedDocument)),
     File("rules.json", "application/json", Decoded(NullRuleDocument)),
     File("settings.json", "application/json", Decoded(Obj(<<>>))),
     File("broken.json", "application/json", InvalidText),
     File("empty.json", "application/json", EmptyText),
     File("notes.txt", "text/plain", Decoded(NamedDocument))}

\* The part of s from its i-th character on.
From(s, i) == SubSeq(s, i, Len(s))

\* The part of s before the first of the characters in stops, all of s when
\* none occurs.
RECURSIVE Before(_, _)
Before(s, stops) ==
    IF s = "" \/ CharAt(s, 1) \in stops THEN ""
    ELSE CharAt(s, 1) \o Before(From(s, 2), stops)

\* new URL(text) for the texts a user types here: a scheme, "://", a host and
\* an optional path, query and fragment.  Anything else throws.
UrlScheme(text) == Before(text, {":"})

IsUrl(text) ==
    /\ UrlScheme(text) # ""
    /\ \A i \in 1..Len(UrlScheme(text)) : CharAt(UrlScheme(text), i) \notin {"/", " ", "."}
    /\ Len(text) >= Len(UrlScheme(text)) + 3
    /\ SubSeq(text, Len(UrlScheme(text)) + 1, Len(UrlScheme(text)) + 3) = "://"
    /\ Before(From(text, Len(UrlScheme(text)) + 4), {"/", "?", "#"}) # ""

\* url.protocol
UrlProtocol(text) == UrlScheme(text) \o ":"

\* What follows the host.
AfterHost(text, host) == From(text, Len(UrlScheme(text)) + 4 + Len(host))

\* url.pathname: "/" when the text has no path.
UrlPathname(text) ==
    IF Before(AfterHost(text, Before(From(text, Len(UrlScheme(text)) + 4), {"/", "?", "#"})),
              {"?", "#"}) = ""
    THEN "/"
    ELSE Before(AfterHost(text, Before(From(text, Len(UrlScheme(text)) + 4), {"/", "?", "#"})),
                {"?", "#"})

\* urlPath.substring(urlPath.lastIndexOf('/') + 1)
LastPathSegment(path) == From(path, LastIndexOfChar(path, "/") + 1)

\* The theme handleFetchFromUrl stores: the parsed theme, named after the last
\* segment of the URL's path when the document has no name and the segment is
\* not empty.  A themeUrl that new URL rejects leaves the theme as parsed.
NamedAfterUrl(doc, theme, url) ==
    IF ~Truthy(Get(doc, "name")) /\ IsUrl(url) /\ LastPathSegment(UrlPathname(url)) # ""
    THEN WithName(theme, StripExtension(LastPathSegment(UrlPathname(url))))
    ELSE theme

\* What the request to /api/fetch-theme settles to: the fetch or the decoding of
\* its body rejects, or a response with a status and a decoded body arrives.
Rejected == [settled |-> "rejected", ok |-> FALSE, status |-> 0, data |-> Undefined]
Response(ok, status, data) == [settled |-> "response", ok |-> ok, status |-> status, data |-> data]

\* The rest of handleFetchFromUrl's try block for a response: the error thrown,
\* or the theme to store.
FetchThrows(response) ==
    \/ response.settled = "rejected"
    \/ ~response.ok
    \/ ~Truthy(Get(response.data, "themeJson"))
    \/ parseVscodeTheme(Get(response.data, "themeJson")).threw

FetchMessage(response) ==
    IF response.settled = "rejected" THEN "Failed to fetch"
    ELSE IF ~response.ok
    THEN JSToString(Or(Get(response.data, "error"),
                       Str("Request failed with status " \o ToString(response.status))))
    ELSE IF ~Truthy(Get(response.data, "themeJson")) THEN "No theme JSON found in the response"
    ELSE parseVscodeTheme(Get(response.data, "themeJson")).message

\* The App state after the try, catch and finally blocks.
Fetched(a, response, url) ==
    IF FetchThrows(response)
    THEN [a EXCEPT !.parseError = Str("fetchUrlError: " \o FetchMessage(response)),
                   !.urlFetchSuccess = FALSE, !.isFetchingUrl = FALSE]
    ELSE [a EXCEPT !.parsedTheme =
                        NamedAfterUrl(Get(response.data, "themeJson"),
                                      parseVscodeTheme(Get(response.data, "themeJson")).value,
                                      url),
                   !.urlFetchSuccess = TRUE, !.isFetchingUrl = FALSE]

\* The texts a user types into the URL input.
AppUrls ==
    {"nord", "ftp://example.com/nord.json", "https://example.com/themes/nord.json?raw=1",
     "https://example.com/themes/", "http://example.com/.json"}

\* The ways the request settles.
AppResponses ==
    {Rejected,
     Response(FALSE, 400, Obj(<<Entry("error", Str("Invalid URL"))>>)),
     Response(FALSE, 500, Obj(<<>>)),
     Response(TRUE, 200, Obj(<<>>)),
     Response(TRUE, 200, Obj(<<Entry("themeJson", Obj(<<>>))>>)),
     Response(TRUE, 200, Obj(<<Entry("themeJson", NamedDocument)>>)),
     Response(TRUE, 200, Obj(<<Entry("themeJson", UnnamedDocument)>>))}

\* The most user events (choosing, dropping, clicking) of one run.
MaxEvents == 3

\* The file input's onChange; the input is disabled while the App is busy.
ChooseFile(file) ==
    /\ pc = "app"
    /\ events < MaxEvents
    /\ ~(app.isProcessing \/ app.isFetchingUrl)
    /\ app' = FileSelected(app, file)
    /\ pending' = Append(pending, Callback("reader", file, NoTheme, ""))
    /\ events' = events + 1
    /\ UNCHANGED <<pc, pipeVars, hexVars, apiVars, callVars, downloads>>

\* handleDrop: a file of another type only shows a message.
handleDrop(file) ==
    /\ pc = "app"
    /\ events < MaxEvents
    /\ IF file.type = "application/json" \/ EndsWith(file.name, ".json")
            \/ EndsWith(file.name, ".jsonc")
       THEN /\ app' = FileSelected(app, file)
            /\ pending' = Append(pending, Callback("reader", file, NoTheme, ""))
       ELSE /\ app' = [app EXCEPT !.parseError = Str("Please drop a valid JSON theme file.")]
            /\ UNCHANGED pending
    /\ events' = events + 1
    /\ UNCHANGED <<pc, pipeVars, hexVars, apiVars, callVars, downloads>>

\* reader.onload: an empty text is an error, any other text starts the 500 ms
\* timer.
ReaderOnload(i) ==
    /\ pc = "app"
    /\ i \in 1..Len(pending)
    /\ pending[i].kind = "reader"
    /\ IF pending[i].file.content.kind = "empty"
       THEN /\ app' = ShowError(app, "readFileError")
            /\ pending' = Without(pending, i)
       ELSE /\ pending' = Append(Without(pending, i),
                                 Callback("parseTimer", pending[i].file, NoTheme, ""))
            /\ UNCHANGED app
    /\ UNCHANGED <<pc, pipeVars, hexVars, apiVars, callVars, downloads, events>>

\* reader.onerror
ReaderOnerror(i) ==
    /\ pc = "app"
    /\ i \in 1..Len(pending)
    /\ pending[i].kind = "reader"
    /\ app' = ShowError(app, "readFileError")
    /\ pending' = Without(pending, i)
    /\ UNCHANGED <<pc, pipeVars, hexVars, apiVars, callVars, downloads, events>>

\* The 500 ms timer of handleFileSelected: decode, parse, store.
ParseTimer(i) ==
    /\ pc = "app"
    /\ i \in 1..Len(pending)
    /\ pending[i].kind = "parseTimer"
    /\ app' = IF pending[i].file.content.kind = "invalid"
              THEN ShowError(app, "parsingError: Invalid JSONC")
              ELSE StoreParsed(app, pending[i].file.content.json,
                               parseVscodeTheme(pending[i].file.content.json),
                               pending[i].file)
    /\ pending' = Without(pending, i)
    /\ UNCHANGED <<pc, pipeVars, hexVars, apiVars, callVars, downloads, events>>

\* handleThemeUrlChange; the input is disabled while the App is busy.
handleThemeUrlChange(newUrl) ==
    /\ pc = "app"
    /\ events < MaxEvents
    /\ ~(app.isProcessing \/ app.isFetchingUrl)
    /\ app' = [app EXCEPT !.themeUrl = newUrl, !.urlFetchSuccess = FALSE,
                          !.isValidThemeUrl =
                              IsUrl(newUrl) /\ UrlProtocol(newUrl) \in {"http:", "https:"}]
    /\ events' = events + 1
    /\ UNCHANGED <<pc, pipeVars, hexVars, apiVars, callVars, pending, downloads>>

\* handleFetchFromUrl up to its first await, behind the button's disabled
\* attribute: the inputs are cleared, the URL put back and the request sent.
handleFetchFromUrl ==
    /\ pc = "app"
    /\ events < MaxEvents
    /\ ~(app.themeUrl = "" \/ ~app.isValidThemeUrl \/ app.isProcessing \/ app.isFetchingUrl
            \/ app.urlFetchSuccess)
    /\ app' = [clearAllInputs(app) EXCEPT !.themeUrl = app.themeUrl, !.isFetchingUrl = TRUE,
                                          !.parseError = Null]
    /\ pending' = Append(pending, Callback("fetch", NoFile, NoTheme, app.themeUrl))
    /\ events' = events + 1
    /\ UNCHANGED <<pc, pipeVars, hexVars, apiVars, callVars, downloads>>

\* handleFetchFromUrl after its awaits, once the request has settled.
FetchSettles(i, response) ==
    /\ pc = "app"
    /\ i \in 1..Len(pending)
    /\ pending[i].kind = "fetch"
    /\ app' = Fetched(app, response, pending[i].url)
    /\ pending' = Without(pending, i)
    /\ UNCHANGED <<pc, pipeVars, hexVars, apiVars, callVars, downloads, events>>

\* handleConvert: nothing without a parsed theme or while busy; otherwise the
\* 300 ms timer is started with the theme of this render.
handleConvert ==
    /\ pc = "app"
    /\ events < MaxEvents
    /\ IF app.parsedTheme = Null \/ app.isProcessing \/ app.isFetchingUrl
       THEN UNCHANGED <<app, pending>>
       ELSE /\ app' = [app EXCEPT !.isProcessing = TRUE]
            /\ pending' = Append(pending, Callback("convertTimer", NoFile, app.parsedTheme, ""))
    /\ events' = events + 1
    /\ UNCHANGED <<pc, pipeVars, hexVars, apiVars, callVars, downloads>>

\* What the 300 ms timer leaves of the App state, given the generator's result.
Converted(a, result) ==
    IF result.threw THEN ShowError(a, "Failed to generate Xcode theme.")
    ELSE [a EXCEPT !.isProcessing = FALSE]

\* The downloads after the 300 ms timer, given the generator's result.
Offered(result, theme) ==
    IF result.threw THEN downloads
    ELSE Append(downloads, Download(DownloadName(theme), result.xml))

\* The themes the App can hold: those of the files and those of the responses.
AppThemes ==
    {NamedAfterFile(f.content.json, parseVscodeTheme(f.content.json).value, f) :
        f \in {g \in AppFiles :
                    g.content.kind = "json" /\ ~parseVscodeTheme(g.content.json).threw}}
    \cup {NamedAfterUrl(Get(r.data, "themeJson"),
                        parseVscodeTheme(Get(r.data, "themeJson")).value, url) :
            url \in AppUrls, r \in {q \in AppResponses : ~FetchThrows(q)}}

\* generateXcodeTheme(theme) for each of them, computed once.
Translations == {<<theme, generateXcodeTheme(theme)>> : theme \in AppThemes}

Translation(theme) == (CHOOSE p \in Translations : p[1] = theme)[2]

\* The 300 ms timer of handleConvert: generate, offer the download, start the
\* 100 ms timer that releases the object URL.
ConvertTimer(i) ==
    /\ pc = "app"
    /\ i \in 1..Len(pending)
    /\ pending[i].kind = "convertTimer"
    /\ app' = Converted(app, Translation(pending[i].theme))
    /\ downloads' = Offered(Translation(pending[i].theme), pending[i].theme)
    /\ pending' = IF Translation(pending[i].theme).threw THEN Without(pending, i)
                  ELSE Append(Without(pending, i), Callback("revokeTimer", NoFile, NoTheme, ""))
    /\ UNCHANGED <<pc, pipeVars, hexVars, apiVars, callVars, events>>

\* The 100 ms timer: URL.revokeObjectURL and removal of the link.
RevokeTimer(i) ==
    /\ pc = "app"
    /\ i \in 1..Len(pending)
    /\ pending[i].kind = "revokeTimer"
    /\ pending' = Without(pending, i)
    /\ UNCHANGED <<pc, pipeVars, hexVars, apiVars, callVars, app, downloads, events>>

\* The App as mounted.
InitApp ==
    /\ pc = "app"
    /\ json = Undefined
    /\ parsed = NotParsed
    /\ out = NoOutput
    /\ hex = Undefined
    /\ fallback = Undefined
    /\ color = Undefined
    /\ tables = ModuleTables
    /\ calls = <<>>
    /\ app = InitialApp
    /\ pending = <<>>
    /\ downloads = <<>>
    /\ events = 0
    /\ api = NoRequest

NextApp ==
    \/ \E file \in AppFiles : ChooseFile(file)
    \/ \E file \in AppFiles : handleDrop(file)
    \/ \E newUrl \in AppUrls : handleThemeUrlChange(newUrl)
    \/ handleFetchFromUrl
    \/ handleConvert
    \/ \E i \in 1..Len(pending) : ReaderOnload(i)
    \/ \E i \in 1..Len(pending) : ReaderOnerror(i)
    \/ \E i \in 1..Len(pending) : ParseTimer(i)
    \/ \E i \in 1..Len(pending), response \in AppResponses : FetchSettles(i, response)
    \/ \E i \in 1..Len(pending) : ConvertTimer(i)
    \/ \E i \in 1..Len(pending) : RevokeTimer(i)

SpecApp == InitApp /\ [][NextApp]_vars

\* The browser runs a callback that is pending: a read ends, a timer fires, the
\* request settles.
CallbackRuns ==
    \E i \in 1..Len(pending) :
        \/ ReaderOnload(i)
        \/ ReaderOnerror(i)
        \/ ParseTimer(i)
        \/ \E response \in AppResponses : FetchSettles(i, response)
        \/ ConvertTimer(i)
        \/ RevokeTimer(i)

\* The App in a browser that does not leave pending callbacks waiting forever.
SpecAppFair == SpecApp /\ WF_vars(CallbackRuns)

(***************************************************************************)
(* The fetch-theme handler (api/fetch-theme.ts): one request, one upstream *)
(* fetch, and the responses written to res.                                *)
(***************************************************************************)
\* String.prototype.includes
Includes(t, part) ==
    \E i \in 1..(Len(t) - Len(part) + 1) : SubSeq(t, i, i + Len(part) - 1) = part

\* t.substring(0, n)
Substring(t, n) == IF Len(t) <= n THEN t ELSE SubSeq(t, 1, n)

\* What res.status(status).json(body) or res.status(status).end() writes.
Reply(status, body) == [status |-> status, body |-> body]

\* { error: message }
ErrorBody(message) == Obj(<<Entry("error", Str(message))>>)

\* The handler returns after writing a response.
Sends(a, status, body) ==
    [a EXCEPT !.phase = "done", !.sent = Append(@, Reply(status, body))]

\* contentType?.includes('json') || (rawText.trim().startsWith('{') &&
\* rawText.trim().endsWith('}'))
SuggestsJson(contentType, rawText) ==
    \/ contentType.k = "string" /\ Includes(contentType.s, "json")
    \/ StartsWith(Trim(rawText), "{") /\ EndsWith(Trim(rawText), "}")

\* The handler from its first line to the fetch call: the method checks, the
\* destructuring of req.body (a TypeError when the body is undefined or null,
\* outside of any try block: the handler's promise rejects and nothing is
\* written), the checks of url, and new URL(url).
Received(method, body) ==
    LET a == ApiCall("received", method, body, "", NoUpstream, <<>>)
    IN IF method = "OPTIONS" THEN Sends(a, 200, Undefined)
       ELSE IF method # "POST" THEN Sends(a, 405, ErrorBody("Method Not Allowed"))
       ELSE IF body.k \in {"undefined", "null"} THEN [a EXCEPT !.phase = "threw"]
       ELSE IF ~Truthy(Get(body, "url")) \/ Typeof(Get(body, "url")) # "string"
            THEN Sends(a, 400, ErrorBody("URL is required in the request body"))
       ELSE IF ~IsUrl(Get(body, "url").s)
            THEN Sends(a, 400, ErrorBody("Invalid URL format"))
       ELSE [a EXCEPT !.phase = "fetching", !.url = Get(body, "url").s]

\* The outer catch: the error of a rejected fetch or of a failed read.
ServerError(a, message) ==
    Sends(a, 500, ErrorBody("Server error fetching URL: " \o message))

\* The handler after response.text() of a non-OK response settled: the text is
\* appended to the message when it could be read.
UpstreamFailed(a, read) ==
    Sends(a, a.upstream.status,
          ErrorBody("Failed to fetch URL. Status: " \o ToString(a.upstream.status)
                    \o (IF read THEN " - " \o Substring(a.upstream.text.raw, 100)
                        ELSE "")))

\* The handler after response.text() of an OK response resolved: the content
\* check, jsonc-parser's parse and the response.
Processed(a) ==
    IF ~SuggestsJson(a.upstream.contentType, a.upstream.text.raw)
    THEN Sends(a, 400, ErrorBody("Fetched content does not appear to be JSON"))
    ELSE IF Len(a.upstream.text.errors) > 0
    THEN Sends(a, 400,
               ErrorBody("Fetched content is not valid JSONC. Error: "
                         \o ToString(a.upstream.text.errors[1].error)
                         \o " at offset "
                         \o ToString(a.upstream.text.errors[1].offset)
                         \o ". Snippet: " \o Substring(a.upstream.text.raw, 200)))
    ELSE Sends(a, 200, Obj(<<Entry("themeJson", a.upstream.text.value)>>))

\* { error, offset } as jsonc-parser reports it.
ParseError(error, offset) == [error |-> error, offset |-> offset]

\* The requests.
ApiMethods == {"OPTIONS", "GET", "POST", "DELETE"}

ApiBodies ==
    {Undefined, Null, Str("https://example.com/nord.json"), Obj(<<>>), Arr(<<>>),
     Obj(<<Entry("url", Str(""))>>), Obj(<<Entry("url", Num(5))>>),
     Obj(<<Entry("url", Str("nord"))>>),
     Obj(<<Entry("url", Str("https://example.com/nord.json"))>>),
     Obj(<<Entry("url", Str("ftp://example.com/nord.json"))>>),
     Obj(<<Entry("name", Str("Nord"))>>)}

\* Body texts with what jsonc-parser's parse makes of them (its ParseErrorCode
\* is 1 for InvalidSymbol and 4 for ValueExpected).
ApiTexts ==
    {Text("{\"colors\":{},}", <<>>, Obj(<<Entry("colors", Obj(<<>>))>>)),
     Text(" {colors} ", <<ParseError(1, 2)>>, Obj(<<>>)),
     Text("[1]", <<>>, Arr(<<Num(1)>>)),
     Text("// theme\n{}", <<>>, Obj(<<>>)),
     Text("<html></html>", <<ParseError(1, 0)>>, Undefined),
     Text("", <<ParseError(4, 0)>>, Undefined)}

ApiContentTypes ==
    {Null, Str("application/json; charset=utf-8"), Str("text/plain"),
     Str("Application/JSON")}

\* response.ok is true for the statuses 200 to 299.
ApiStatuses == {200, 204, 404, 503}

ApiUpstreams ==
    {Upstream(status \in 200..299, status, contentType, text) :
        status \in ApiStatuses, contentType \in ApiContentTypes, text \in ApiTexts}

\* The messages of the errors fetch and response.text() reject with.
ApiFailures == {"fetch failed", "terminated"}

\* A request reaches the handler, which runs to its first await or return.
HandleRequest(method, body) ==
    /\ pc = "api"
    /\ api.phase = "idle"
    /\ api' = Received(method, body)
    /\ UNCHANGED <<pc, pipeVars, hexVars, callVars, appVars>>

\* fetch(url) rejects: no connection, or a scheme fetch does not implement.
FetchRejects(message) ==
    /\ pc = "api"
    /\ api.phase = "fetching"
    /\ api' = ServerError(api, message)
    /\ UNCHANGED <<pc, pipeVars, hexVars, callVars, appVars>>

\* fetch(url) resolves with the upstream response: the handler goes on to
\* await response.text().
FetchResolves(upstream) ==
    /\ pc = "api"
    /\ api.phase = "fetching"
    /\ UrlProtocol(api.url) \in {"http:", "https:"}
    /\ api' = [api EXCEPT !.phase = "reading", !.upstream = upstream]
    /\ UNCHANGED <<pc, pipeVars, hexVars, callVars, appVars>>

\* response.text() resolves.
TextResolves ==
    /\ pc = "api"
    /\ api.phase = "reading"
    /\ api' = IF api.upstream.ok THEN Processed(api) ELSE UpstreamFailed(api, TRUE)
    /\ UNCHANGED <<pc, pipeVars, hexVars, callVars, appVars>>

\* response.text() rejects: the inner catch ignores it for a non-OK response,
\* the outer catch answers for an OK one.
TextRejects(message) ==
    /\ pc = "api"
    /\ api.phase = "reading"
    /\ api' = IF api.upstream.ok THEN ServerError(api, message)
              ELSE UpstreamFailed(api, FALSE)
    /\ UNCHANGED <<pc, pipeVars, hexVars, callVars, appVars>>

InitApi ==
    /\ pc = "api"
    /\ json = Undefined
    /\ parsed = NotParsed
    /\ out = NoOutput
    /\ hex = Undefined
    /\ fallback = Undefined
    /\ color = Undefined
    /\ tables = ModuleTables
    /\ calls = <<>>
    /\ app = InitialApp
    /\ pending = <<>>
    /\ downloads = <<>>
    /\ events = 0
    /\ api = NoRequest

NextApi ==
    \/ \E method \in ApiMethods, body \in ApiBodies : HandleRequest(method, body)
    \/ \E message \in ApiFailures : FetchRejects(message)
    \/ \E upstream \in ApiUpstreams : FetchResolves(upstream)
    \/ TextResolves
    \/ \E message \in ApiFailures : TextRejects(message)

SpecApi == InitApi /\ [][NextApi]_vars

(***************************************************************************)
(* Properties of the parser.                                               *)
(***************************************************************************)
\* The parser has run on json.
ParserDone == pc \in {"rejected", "parsed", "translated"}

\* The input is a non-null value of object type.
IsObjectInput(j) == j.k \in {"object", "array"}

\* The input has an own field of that name.
HasField(j, f) == j.k = "object" /\ HasOwn(j.e, f)

\* C1: generateXcodeTheme never fails: for every theme parseVscodeTheme
\* returns, whatever its colors, tokenColors entries, scope lists and settings,
\* it returns an output document and raises no error.
C1_TranslateNeverFails ==
    pc = "translated" =>
        /\ ~out.threw
        /\ out.xml # <<>>

\* C2: parseVscodeTheme raises an error for every input that is absent, null or
\* not of object type, and for every object input without a colors field, and
\* the two cases carry different messages.
C2_ParserRejects ==
    ParserDone =>
        /\ ~IsObjectInput(json) =>
                parsed.threw /\ parsed.message = ErrNotObject
        /\ IsObjectInput(json) /\ ~HasField(json, "colors") =>
                parsed.threw /\ parsed.message = ErrMissingColors
        /\ ErrNotObject # ErrMissingColors

\* An object without a colors field was rejected with the second message.
C2_Witness ==
    /\ pc = "rejected"
    /\ json.k = "object"
    /\ ~HasField(json, "colors")
    /\ HasField(json, "name")
    /\ parsed.message = ErrMissingColors

\* C3, as stated: every top-level object input that has a colors field,
\* whatever that field's value, is accepted.
C3_AnyColorsAccepted ==
    ParserDone =>
        (IsObjectInput(json) /\ HasField(json, "colors") => ~parsed.threw)

\* C3, amended: parseVscodeTheme accepts exactly the non-null inputs of object
\* type whose colors value is truthy; an object whose colors field is present
\* but falsy (null, "", 0, false) is rejected with the missing-colors message.
C3_TruthyColorsAccepted ==
    ParserDone =>
        /\ parsed.threw <=>
                ~(IsObjectInput(json) /\ HasField(json, "colors")
                    /\ Truthy(GetOwn(json.e, "colors")))
        /\ HasField(json, "colors") /\ ~Truthy(GetOwn(json.e, "colors")) =>
                parsed.threw /\ parsed.message = ErrMissingColors
        /\ ~parsed.threw => parsed.value.colors = GetOwn(json.e, "colors")

\* An object whose colors field is null was rejected.
C3_Witness ==
    /\ pc = "rejected"
    /\ HasField(json, "colors")
    /\ GetOwn(json.e, "colors") = Null
    /\ parsed.message = ErrMissingColors

\* The value a field of the input has, or the default when the field is absent.
FieldOrDefault(f, default) ==
    IF HasField(json, f) THEN GetOwn(json.e, f) ELSE default

\* The value a field of the input has, or the default when the field is absent
\* or its value is falsy.
TruthyFieldOrDefault(f, default) ==
    IF HasField(json, f) /\ Truthy(GetOwn(json.e, f)) THEN GetOwn(json.e, f)
    ELSE default

IsExactlyTrue(f) == HasField(json, f) /\ GetOwn(json.e, f) = Bool(TRUE)

OnlyColors == Obj(<<Entry("colors", Obj(<<>>))>>)

\* C4, as stated: on success every field is defined, name, type, tokenColors
\* and semanticTokenColors are the input's values or their defaults when
\* absent, and semanticHighlighting is true only for an input value of true.
C4_DefaultsWhenAbsent ==
    pc \in {"parsed", "translated"} =>
        /\ \A f \in ThemeFields : parsed.value[f] # Undefined
        /\ parsed.value.name = FieldOrDefault("name", Str("Untitled Theme"))
        /\ parsed.value.type = FieldOrDefault("type", Str("dark"))
        /\ parsed.value.tokenColors = FieldOrDefault("tokenColors", Arr(<<>>))
        /\ parsed.value.semanticHighlighting = Bool(IsExactlyTrue("semanticHighlighting"))
        /\ parsed.value.semanticTokenColors
                = FieldOrDefault("semanticTokenColors", Obj(<<>>))

\* C4, amended: on success every field is defined; name, type, tokenColors and
\* semanticTokenColors are the input's values when those are truthy and
\* "Untitled Theme", "dark", an empty sequence and an empty mapping when the
\* field is absent or falsy; semanticHighlighting is true only for an input
\* value of exactly true; parse({colors:{}}) yields the three defaults.
C4_DefaultsWhenFalsy ==
    pc \in {"parsed", "translated"} =>
        /\ \A f \in ThemeFields : parsed.value[f] # Undefined
        /\ parsed.value.name = TruthyFieldOrDefault("name", Str("Untitled Theme"))
        /\ parsed.value.type = TruthyFieldOrDefault("type", Str("dark"))
        /\ parsed.value.tokenColors = TruthyFieldOrDefault("tokenColors", Arr(<<>>))
        /\ parsed.value.semanticHighlighting = Bool(IsExactlyTrue("semanticHighlighting"))
        /\ parsed.value.semanticTokenColors
                = TruthyFieldOrDefault("semanticTokenColors", Obj(<<>>))
        /\ json = OnlyColors =>
                /\ parsed.value.name = Str("Untitled Theme")
                /\ parsed.value.type = Str("dark")
                /\ parsed.value.tokenColors = Arr(<<>>)

\* parse({colors:{}}) succeeded with the normalized defaults.
C4_Witness ==
    /\ pc = "parsed"
    /\ json = OnlyColors
    /\ parsed.value.name = Str("Untitled Theme")
    /\ parsed.value.type = Str("dark")
    /\ parsed.value.tokenColors = Arr(<<>>)
    /\ parsed.value.semanticHighlighting = Bool(FALSE)

(***************************************************************************)
(* Properties of the color conversion.                                     *)
(***************************************************************************)
\* The text left of a string after trimming and stripping one leading '#'.
StripLeadingHash(s) ==
    LET t == Trim(s)
    IN IF t # "" /\ CharAt(t, 1) = "#" THEN SubSeq(t, 2, Len(t)) ELSE t

\* A valid hex color: 3, 6 or 8 hexadecimal digits, with or without a leading '#'.
IsValidHexColor(s) ==
    LET u == StripLeadingHash(s)
    IN /\ Len(u) \in {3, 6, 8}
       /\ \A i \in 1..Len(u) : IsHexDigit(CharAt(u, i))

\* The channel c (1 = R, 2 = G, 3 = B, 4 = A) of the digits u, in 0..255: a
\* digit of the 3-digit form stands for itself twice, and a form without alpha
\* digits is opaque.
ChannelByte(u, c) ==
    IF c = 4 /\ Len(u) \in {3, 6} THEN 255
    ELSE IF Len(u) = 3 THEN 17 * HexDigitValue(CharAt(u, c))
    ELSE 16 * HexDigitValue(CharAt(u, 2 * c - 1)) + HexDigitValue(CharAt(u, 2 * c))

\* The fields of s between its spaces.
RECURSIVE SplitOnSpace(_)
SplitOnSpace(s) ==
    LET i == IndexOfChar(s, " ")
    IN IF i = 0 THEN <<s>>
       ELSE <<SubSeq(s, 1, i - 1)>> \o SplitOnSpace(SubSeq(s, i + 1, Len(s)))

DecimalDigits == {"0", "1", "2", "3", "4", "5", "6", "7", "8", "9"}

DecimalDigitValue(c) ==
    CASE c = "0" -> 0 [] c = "1" -> 1 [] c = "2" -> 2 [] c = "3" -> 3
      [] c = "4" -> 4 [] c = "5" -> 5 [] c = "6" -> 6 [] c = "7" -> 7
      [] c = "8" -> 8 [] c = "9" -> 9

\* A decimal numeral of a number in [0,1] with at most six decimals, as
\* JavaScript prints it: "0", "1", or "0." and one to six digits, the last not 0.
IsUnitDecimal(t) ==
    \/ t \in {"0", "1"}
    \/ (/\ Len(t) \in 3..8
        /\ SubSeq(t, 1, 2) = "0."
        /\ \A i \in 3..Len(t) : CharAt(t, i) \in DecimalDigits
        /\ CharAt(t, Len(t)) # "0")

\* The number a unit decimal denotes, in millionths: the digits after "0." are
\* read from the tenths down, i being the position and unit the digit's weight.
RECURSIVE FractionMillionths(_, _, _)
FractionMillionths(t, i, unit) ==
    IF i > Len(t) THEN 0
    ELSE DecimalDigitValue(CharAt(t, i)) * unit + FractionMillionths(t, i + 1, unit \div 10)

Millionths(t) ==
    IF t = "0" THEN 0
    ELSE IF t = "1" THEN 1000000
    ELSE FractionMillionths(t, 3, 100000)

\* v millionths is round(channel / 255 * 10^6) / 10^6: the multiple of 10^-6
\* nearest to channel / 255 (no channel in 0..255 lies halfway between two).
IsRounded(v, channel) ==
    /\ v \in 0..1000000
    /\ 2 * (255 * v - channel * 1000000) <= 255
    /\ 2 * (channel * 1000000 - 255 * v) < 255

\* C5: for every valid hex color of 3, 6 or 8 hex digits, with or without a
\* leading '#', hexToXcodeColor returns four space-separated numbers in the
\* order R G B A, each round(channel/255 * 10^6)/10^6 with channel in 0..255 and
\* so in [0,1]; a 6-digit or 3-digit input has alpha 1; "#FFFFFF" gives
\* "1 1 1 1", "#000000" gives "0 0 0 1", "#80808080" gives 0.501961 four times.
C5_HexConversion ==
    pc = "converted" /\ hex.k = "string" /\ IsValidHexColor(hex.s) =>
        /\ color.k = "string"
        /\ LET u == StripLeadingHash(hex.s)
               parts == SplitOnSpace(color.s)
           IN /\ Len(parts) = 4
              /\ \A c \in 1..4 :
                    /\ ChannelByte(u, c) \in 0..255
                    /\ IsUnitDecimal(parts[c])
                    /\ IsRounded(Millionths(parts[c]), ChannelByte(u, c))
              /\ Len(u) \in {3, 6} => parts[4] = "1"
        /\ hex = Str("#FFFFFF") => color = Str("1 1 1 1")
        /\ hex = Str("#000000") => color = Str("0 0 0 1")
        /\ hex = Str("#80808080") => color = Str("0.501961 0.501961 0.501961 0.501961")

\* "#80808080" was converted, with a fallback supplied, to 0.501961 four times.
C5_Witness ==
    /\ pc = "converted"
    /\ hex = Str("#80808080")
    /\ fallback # Undefined
    /\ color = Str("0.501961 0.501961 0.501961 0.501961")

\* The fallback a call returns: the one supplied, or "1 1 1 1" when none is.
SuppliedFallback == IF fallback = Undefined THEN Str("1 1 1 1") ELSE fallback

\* C6: hexToXcodeColor returns the supplied fallback unchanged ("1 1 1 1" when
\* none is given) for every input that, after trimming and stripping one
\* leading '#', is not exactly 3, 6 or 8 hexadecimal digits, strings of the
\* right length with a non-hex character and strings with a '#' at a
\* non-leading position included.
C6_MalformedGivesFallback ==
    pc = "converted" /\ hex.k = "string" /\ ~IsValidHexColor(hex.s) =>
        color = SuppliedFallback

\* The digits u with each digit written twice.
RECURSIVE Doubled(_)
Doubled(u) ==
    IF u = "" THEN "" ELSE SubSeq(u, 1, 1) \o SubSeq(u, 1, 1) \o Doubled(SubSeq(u, 2, Len(u)))

\* C21: hexToXcodeColor gives the same result for a 3-digit color, its
\* digit-doubled 6-digit form and that form with "FF" appended, and for a
\* 6-digit color and the same color with "FF" appended; a leading '#' and
\* surrounding whitespace do not change the result.
C21_EquivalentForms ==
    pc = "converted" /\ hex.k = "string" /\ IsValidHexColor(hex.s) =>
        LET u == StripLeadingHash(hex.s)
        IN /\ color = hexToXcodeColor(Str(u), fallback)
           /\ color = hexToXcodeColor(Str("#" \o u), fallback)
           /\ color = hexToXcodeColor(Str(" \t#" \o u \o " "), fallback)
           /\ Len(u) = 3 =>
                /\ color = hexToXcodeColor(Str("#" \o Doubled(u)), fallback)
                /\ color = hexToXcodeColor(Str("#" \o Doubled(u) \o "FF"), fallback)
           /\ Len(u) = 6 => color = hexToXcodeColor(Str("#" \o u \o "FF"), fallback)

\* "08F" between whitespace and behind a '#' was converted as "#0088FFFF" is.
C21_Witness ==
    /\ pc = "converted"
    /\ hex = Str("\t#08F ")
    /\ color = Str("0 0.533333 1 1")
    /\ color = hexToXcodeColor(Str("#0088FFFF"), fallback)

(***************************************************************************)
(* Properties of the token rules.                                          *)
(***************************************************************************)
\* The orderings of a sequence.
Reorderings(q) ==
    {[i \in 1..Len(q) |-> q[p[i]]] :
        p \in {f \in [1..Len(q) -> 1..Len(q)] :
                \A i, j \in 1..Len(q) : f[i] = f[j] => i = j}}

HasScopeList(token) ==
    /\ token.k = "object"
    /\ HasOwn(token.e, "scope")
    /\ IsArray(GetOwn(token.e, "scope"))

\* A token rule with its scope list in each of its orders.
RuleReorderings(token) ==
    IF HasScopeList(token)
    THEN {Obj(Set(token.e, "scope", Arr(r))) :
            r \in Reorderings(Elements(GetOwn(token.e, "scope")))}
    ELSE {token}

\* The token rules in each of their orders, each with its scope list in each
\* of its orders.
TokenReorderings(tokens) ==
    UNION {{v \in [1..Len(q) -> UNION {RuleReorderings(q[i]) : i \in 1..Len(q)}] :
                \A i \in 1..Len(q) : v[i] \in RuleReorderings(q[i])} :
            q \in Reorderings(tokens)}

\* The syntax colors as a mapping from output key to color.
SyntaxMapping(syntaxColors) == {syntaxColors[i] : i \in 1..Len(syntaxColors)}

\* C7: token-rule order is not used for precedence: permuting the entries of
\* tokenColors, and the scopes inside a rule's scope list, does not change the
\* color assigned to any output syntax key.
C7_OrderNotUsed ==
    pc = "translated" /\ ~out.threw /\ IsArray(parsed.value.tokenColors) =>
        \A v \in TokenReorderings(Elements(parsed.value.tokenColors)) :
            LET other == generateXcodeTheme([parsed.value EXCEPT !.tokenColors = Arr(v)])
            IN /\ ~other.threw
               /\ SyntaxMapping(other.syntaxColors) = SyntaxMapping(out.syntaxColors)

\* The scope occurrences of the token rules in the order the loops visit them,
\* each with the settings of its rule.
RECURSIVE Occurrences(_, _)
Occurrences(tokens, i) ==
    IF i > Len(tokens) THEN <<>>
    ELSE LET settings == Or(Get(tokens[i], "settings"), Obj(<<>>))
             scopes == Scopes(tokens[i])
         IN [j \in 1..Len(scopes) |-> [s |-> scopes[j], settings |-> settings]]
                \o Occurrences(tokens, i + 1)

\* syntaxColors after the first n occurrences.
RECURSIVE ColorsAfter(_, _)
ColorsAfter(occ, n) ==
    IF n = 0 THEN <<>>
    ELSE MapScope(occ[n].s, Mapped(occ[n].s), Get(occ[n].settings, "foreground"),
                  ColorsAfter(occ, n - 1))

\* The occurrence n names a mapped scope and a color.
Matches(occ, n) ==
    Truthy(Mapped(occ[n].s)) /\ Truthy(Get(occ[n].settings, "foreground"))

KeyOf(occ, n) == JSToString(Mapped(occ[n].s))

\* The occurrence n stored its color under its key.
Stores(occ, n) ==
    /\ Matches(occ, n)
    /\ \/ ~In(KeyOf(occ, n), ColorsAfter(occ, n - 1))
       \/ Overwrites(occ[n].s, Mapped(occ[n].s),
                     Get(Obj(ColorsAfter(occ, n - 1)), KeyOf(occ, n)),
                     hexToXcodeColor(Get(occ[n].settings, "foreground"), Undefined))

\* The occurrence n replaced a color its key already had.
Replaces(occ, n) ==
    /\ Stores(occ, n)
    /\ HasOwn(ColorsAfter(occ, n - 1), KeyOf(occ, n))

\* The scope that produced the color the key has after the first n occurrences.
Producer(occ, n, key) ==
    LET last == CHOOSE m \in 1..n :
                    /\ Stores(occ, m) /\ KeyOf(occ, m) = key
                    /\ \A l \in (m + 1)..n : ~(Stores(occ, l) /\ KeyOf(occ, l) = key)
    IN occ[last].s

\* The index of a scope in scopePriority, a scope that is not listed coming
\* after every listed one.
PriorityIndex(s) ==
    IF IndexOf(scopePriority, s) = -1 THEN Len(scopePriority)
    ELSE IndexOf(scopePriority, s)

StringThenQuoted ==
    <<Rule(Str("string"), Str("#FF0000")), Rule(Str("string.quoted.double"), Str("#00FF00"))>>

\* C8: when an output syntax key already has a color, a later matching scope
\* replaces it only when its index in scopePriority is lower than the index of
\* the scope that produced the current value; with rules for "string" and then
\* "string.quoted.double" with different foregrounds the string key keeps the
\* color of "string".
C8_OverwritePolicy ==
    pc = "translated" /\ ~out.threw /\ IsArray(parsed.value.tokenColors) =>
        LET occ == Occurrences(Elements(parsed.value.tokenColors), 1)
        IN /\ \A n \in 1..Len(occ) :
                Replaces(occ, n) =>
                    PriorityIndex(occ[n].s)
                        < PriorityIndex(Producer(occ, n - 1, KeyOf(occ, n)))
           /\ Elements(parsed.value.tokenColors) = StringThenQuoted =>
                Get(Obj(out.syntaxColors), "xcode.syntax.string")
                    = hexToXcodeColor(Str("#FF0000"), Undefined)

(***************************************************************************)
(* Properties of the base colors.                                          *)
(***************************************************************************)
\* The literal default of an output key.
DefaultOf(xcKey) == GetOwn(xcodeRequiredKeys, xcKey)

\* The theme has the input key.
HasColor(theme, vsKey) == theme.colors.k = "object" /\ HasOwn(theme.colors.e, vsKey)

\* The output keys of the five pairs.
MappedOutputKeys == {colorMapping[i].val.s : i \in 1..Len(colorMapping)}

BackgroundOnly == Obj(<<Entry("editor.background", Str("#112233"))>>)

C10_MalformedKeepsDefault ==
    pc = "translated" =>
        /\ parsed.value.tokenColors = Arr(<<>>) => ~out.threw
        /\ ~out.threw =>
            \A i \in 1..Len(colorMapping) :
                (/\ HasColor(parsed.value, colorMapping[i].key)
                 /\ GetOwn(parsed.value.colors.e, colorMapping[i].key).k = "string"
                 /\ ~IsValidHexColor(GetOwn(parsed.value.colors.e, colorMapping[i].key).s))
                => GetOwn(out.xcodeColors, colorMapping[i].val.s)
                        = DefaultOf(colorMapping[i].val.s)

(***************************************************************************)
(* Properties of the required keys.                                        *)
(***************************************************************************)
PlainDefault == Str("0.973 0.973 0.941 1")

\* The seven required syntax keys.
RequiredSyntaxKeys ==
    {"xcode.syntax.plain", "xcode.syntax.comment", "xcode.syntax.string",
     "xcode.syntax.keyword", "xcode.syntax.number",
     "xcode.syntax.identifier.variable", "xcode.syntax.identifier.constant"}

\* The keys of a table.
KeysOf(entries) == {entries[i].key : i \in 1..Len(entries)}

\* The plist item of a key and a string.
KeyString(k, v) == "<key>" \o k \o "</key>\n<string>" \o v \o "</string>"

\* The pieces of the output document.
Pieces(xml) == {xml[i] : i \in 1..Len(xml)}

\* C11: translate(parse({colors:{}})) contains the five base entries with
\* their literal defaults and a nested syntax block with exactly the seven
\* required syntax keys, each set to the plain default 0.973 0.973 0.941 1.
C11_DefaultDocument ==
    pc = "translated" /\ json = OnlyColors =>
        /\ ~out.threw
        /\ out.xcodeColors =
            <<Entry("DVTSourceTextBackground", Str("0.0584239 0.0584239 0.0584239 1")),
              Entry("DVTSourceTextSelectionColor", Str("0.253963 0.279965 0.351202 1")),
              Entry("DVTSourceTextCurrentLineHighlightColor",
                    Str("0.107309 0.113809 0.131618 1")),
              Entry("DVTSourceTextInsertionPointColor", Str("0.973 0.973 0.941 1")),
              Entry("xcode.syntax.plain", Str("0.973 0.973 0.941 1"))>>
        /\ \A i \in 1..Len(out.xcodeColors) :
                KeyString(out.xcodeColors[i].key, out.xcodeColors[i].val.s) \in Pieces(out.xml)
        /\ Len(out.syntaxColors) = 7
        /\ KeysOf(out.syntaxColors) = RequiredSyntaxKeys
        /\ \A i \in 1..Len(out.syntaxColors) :
                /\ out.syntaxColors[i].val = PlainDefault
                /\ KeyString(out.syntaxColors[i].key, "0.973 0.973 0.941 1")
                        \in Pieces(out.xml)
        /\ "<key>DVTSourceTextSyntaxColors</key>\n<dict>" \in Pieces(out.xml)

\* {colors:{}} was parsed and translated into a document of defaults.
C11_Witness ==
    /\ pc = "translated"
    /\ json = OnlyColors
    /\ ~out.threw
    /\ KeyString("DVTSourceTextBackground", "0.0584239 0.0584239 0.0584239 1")
            \in Pieces(out.xml)
    /\ KeyString("xcode.syntax.keyword", "0.973 0.973 0.941 1") \in Pieces(out.xml)

\* The syntax colors the token rules of the translated theme assigned.
AssignedByRules ==
    IF IsArray(parsed.value.tokenColors)
    THEN ColorsAfter(Occurrences(Elements(parsed.value.tokenColors), 1),
                     Len(Occurrences(Elements(parsed.value.tokenColors), 1)))
    ELSE <<>>

\* The theme sets a valid editor.foreground.
HasValidForeground(theme) ==
    /\ HasColor(theme, "editor.foreground")
    /\ GetOwn(theme.colors.e, "editor.foreground").k = "string"
    /\ IsValidHexColor(GetOwn(theme.colors.e, "editor.foreground").s)

\* The plain-text color the claim gives a theme.
PlainOf(theme) ==
    IF HasValidForeground(theme)
    THEN hexToXcodeColor(GetOwn(theme.colors.e, "editor.foreground"), PlainDefault)
    ELSE PlainDefault

\* C12: after all token rules are processed the nested syntax block of every
\* output contains the seven required keys; each required key that no rule
\* assigned has the current value of the plain-text output key, which is the
\* converted editor.foreground when the theme sets a valid one and the plain
\* default otherwise.
C12_RequiredKeys ==
    pc = "translated" /\ ~out.threw =>
        /\ RequiredSyntaxKeys \subseteq KeysOf(out.syntaxColors)
        /\ \A k \in RequiredSyntaxKeys :
                ~HasOwn(AssignedByRules, k) =>
                    /\ GetOwn(out.syntaxColors, k) = GetOwn(out.xcodeColors, "xcode.syntax.plain")
                    /\ GetOwn(out.syntaxColors, k) = PlainOf(parsed.value)

(***************************************************************************)
(* Properties of repeated and interleaved translations.                    *)
(***************************************************************************)
Callers == 1..MaxCallers

\* The caller's theme sets a base color.
SetsBaseColor(c) == HasColor(calls[c].theme, "editor.background")

\* C13: translation is deterministic: translating the same theme twice, in any
\* order relative to other translations, yields byte-identical output,
\* including the order of the emitted entries.
C13_Deterministic ==
    pc = "calls" =>
        \A c, d \in Callers :
            calls[c].called /\ calls[d].called /\ calls[c].theme = calls[d].theme =>
                /\ calls[c].out.xml = calls[d].out.xml
                /\ calls[c].out = calls[d].out

\* Two callers translated the same theme, which sets no base color, and another
\* caller translated a theme that sets one.
C13_Witness ==
    /\ pc = "calls"
    /\ \E c, d, e \in Callers :
        /\ c # d
        /\ calls[c].called /\ calls[d].called /\ calls[e].called
        /\ calls[c].theme = calls[d].theme
        /\ ~SetsBaseColor(c)
        /\ SetsBaseColor(e)
        /\ calls[c].out.xml # <<>>
        /\ calls[c].out.xml = calls[d].out.xml

\* C16: an invocation of generateXcodeTheme never modifies the module-level
\* tables, so under any interleaving of invocations from several callers each
\* caller gets the result of running its invocation alone.
C16_NoSharedState ==
    pc = "calls" =>
        /\ tables = ModuleTables
        /\ \A c \in Callers :
                calls[c].called => calls[c].out = generateXcodeTheme(calls[c].theme)

\* Every caller has been served, one of them with a theme that sets a base
\* color, and the tables are as the module initialized them.
C16_Witness ==
    /\ pc = "calls"
    /\ \A c \in Callers : calls[c].called
    /\ \E c, d \in Callers :
        /\ SetsBaseColor(c)
        /\ GetOwn(calls[c].out.xcodeColors, "DVTSourceTextBackground")
                # DefaultOf("DVTSourceTextBackground")
        /\ ~SetsBaseColor(d)
        /\ GetOwn(calls[d].out.xcodeColors, "DVTSourceTextBackground")
                = DefaultOf("DVTSourceTextBackground")
    /\ tables.xcodeRequiredKeys = xcodeRequiredKeys

(***************************************************************************)
(* Properties of the output document.                                      *)
(***************************************************************************)
\* The text has no character that XML text content must escape.
IsPlainText(t) == IndexOfChar(t, "<") = 0 /\ IndexOfChar(t, "&") = 0

\* The text after its first n characters.
Drop(t, n) == SubSeq(t, n + 1, Len(t))

\* The text before the first '<'.
TextBeforeTag(t) ==
    IF IndexOfChar(t, "<") = 0 THEN t ELSE SubSeq(t, 1, IndexOfChar(t, "<") - 1)

\* An item <key>K</key>, a line break, <string>V</string> whose texts K and V
\* are plain.
IsKeyStringItem(item) ==
    /\ StartsWith(item, "<key>")
    /\ LET afterKey == Drop(item, 5)
           k == TextBeforeTag(afterKey)
           rest == Drop(afterKey, Len(k))
       IN /\ IsPlainText(k)
          /\ StartsWith(rest, "</key>\n<string>")
          /\ LET afterString == Drop(rest, 15)
                 v == TextBeforeTag(afterString)
             IN /\ IsPlainText(v)
                /\ Drop(afterString, Len(v)) = "</string>"

\* The items of a document: the pieces between the header and the footer that
\* are not the line breaks joining them.
ItemCount(xml) == (Len(xml) - 1) \div 2

Item(xml, i) == xml[2 * i]

\* The document is the XML declaration, the opened plist and root dict, items
\* joined by line breaks, and the closed root dict and plist.
IsFramed(xml) ==
    /\ Len(xml) >= 3
    /\ Len(xml) = 2 * ItemCount(xml) + 1
    /\ xml[1] = "<?xml version=\"1.0\" encoding=\"UTF-8\"?>\n<!DOCTYPE plist PUBLIC \"-//Apple//DTD PLIST 1.0//EN\" \"http://www.apple.com/DTDs/PropertyList-1.0.dtd\">\n<plist version=\"1.0\">\n<dict>\n"
    /\ xml[Len(xml)] = "\n</dict>\n</plist>\n"
    /\ \A i \in 1..(ItemCount(xml) - 1) : xml[2 * i + 1] = "\n"

OpenSyntaxDict == "<key>DVTSourceTextSyntaxColors</key>\n<dict>"

\* The nested dict is opened once and closed once, later, and every other item
\* is a key/string item with plain texts.
IsWellFormed(xml) ==
    /\ IsFramed(xml)
    /\ \E i, j \in 1..ItemCount(xml) :
        /\ i < j
        /\ Item(xml, i) = OpenSyntaxDict
        /\ Item(xml, j) = "</dict>"
        /\ \A k \in 1..ItemCount(xml) \ {i, j} : IsKeyStringItem(Item(xml, k))

\* C14: the output is well-formed XML for every theme whose name has no
\* XML-special character: every <key> and <string> element has text content
\* free of '<' and '&' and the nested dict, the root dict and the plist are
\* closed in order; nothing but the name is taken verbatim from the input.
C14_WellFormed ==
    pc = "calls" =>
        \A c \in Callers :
            (/\ calls[c].called
             /\ ~calls[c].out.threw
             /\ IsPlainText(JSToString(calls[c].theme.name)))
            => IsWellFormed(calls[c].out.xml)

\* A theme with markup characters in a base color, in scopes and in
\* foregrounds, and a plain name, was translated into a well-formed document
\* that has its name.
C14_Witness ==
    /\ pc = "calls"
    /\ \E c \in Callers :
        /\ calls[c].called
        /\ calls[c].theme.name = Str("Night Owl")
        /\ ~IsPlainText(GetOwn(calls[c].theme.colors.e, "editor.background").s)
        /\ IsWellFormed(calls[c].out.xml)
        /\ KeyString("XCThemeName", "Night Owl") \in Pieces(calls[c].out.xml)

\* The keys of the default table, in its order.
BaseKeyOrder ==
    <<"DVTSourceTextBackground", "DVTSourceTextSelectionColor",
      "DVTSourceTextCurrentLineHighlightColor", "DVTSourceTextInsertionPointColor",
      "xcode.syntax.plain">>

\* The root dict of a caller's document is the five base entries in table
\* order, the DVTSourceTextSyntaxColors entry with all syntax entries in its
\* dict, and the name entry exactly when the name is not empty.
IsInSerializationOrder(theme, o) ==
    LET n == Len(o.syntaxColors)
        named == theme.name # Str("")
    IN /\ IsFramed(o.xml)
       /\ Len(o.xcodeColors) = 5
       /\ \A i \in 1..5 :
            /\ o.xcodeColors[i].key = BaseKeyOrder[i]
            /\ Item(o.xml, i) = KeyString(BaseKeyOrder[i], o.xcodeColors[i].val.s)
       /\ Item(o.xml, 6) = OpenSyntaxDict
       /\ \A i \in 1..n :
            Item(o.xml, 6 + i) = KeyString(o.syntaxColors[i].key, o.syntaxColors[i].val.s)
       /\ Item(o.xml, 7 + n) = "</dict>"
       /\ ItemCount(o.xml) = IF named THEN 8 + n ELSE 7 + n
       /\ named => Item(o.xml, 8 + n) = KeyString("XCThemeName", theme.name.s)
       /\ \A i \in 1..(7 + n) : ~StartsWith(Item(o.xml, i), "<key>XCThemeName</key>")

\* C15: the root dict contains, in this order, the five base color entries in
\* the order of the default table, then one DVTSourceTextSyntaxColors entry
\* whose nested dict holds all syntax color entries, then an XCThemeName entry
\* if and only if the theme name is non-empty.
C15_SerializationOrder ==
    pc = "calls" =>
        \A c \in Callers :
            calls[c].called /\ ~calls[c].out.threw =>
                IsInSerializationOrder(calls[c].theme, calls[c].out)

\* A theme without a name and a theme with a name and a token rule were
\* translated: the first document ends with the nested dict, the second with
\* the name entry.
C15_Witness ==
    /\ pc = "calls"
    /\ \E c, d \in Callers :
        /\ calls[c].called /\ calls[d].called
        /\ calls[c].theme.name = Str("")
        /\ Item(calls[c].out.xml, ItemCount(calls[c].out.xml)) = "</dict>"
        /\ calls[d].theme.name = Str("Monokai")
        /\ calls[d].theme.tokenColors # Arr(<<>>)
        /\ Item(calls[d].out.xml, ItemCount(calls[d].out.xml))
                = KeyString("XCThemeName", "Monokai")
        /\ Item(calls[d].out.xml, 1)
                = KeyString("DVTSourceTextBackground", "0.066667 0.133333 0.2 1")

(***************************************************************************)
(* Properties of what the parser passes on.                                *)
(***************************************************************************)
\* A value of the colors object is a string that is not a valid hex color.
HasMalformedColor(colors) ==
    /\ colors.k = "object"
    /\ \E i \in 1..Len(colors.e) :
        colors.e[i].val.k = "string" /\ ~IsValidHexColor(colors.e[i].val.s)

\* C17: the parser performs no color validation: the colors mapping and the
\* tokenColors sequence of the returned theme are exactly the input's, every
\* value, malformed hex strings included, unchanged.
C17_PassedThrough ==
    pc \in {"parsed", "translated"} =>
        /\ parsed.value.colors = GetOwn(json.e, "colors")
        /\ HasField(json, "tokenColors") /\ Truthy(GetOwn(json.e, "tokenColors")) =>
                parsed.value.tokenColors = GetOwn(json.e, "tokenColors")

\* A document with a malformed hex string and a value that is not a string
\* among its colors was parsed, and the theme has them.
C17_Witness ==
    /\ pc = "parsed"
    /\ HasMalformedColor(GetOwn(json.e, "colors"))
    /\ \E i \in 1..Len(parsed.value.colors.e) : parsed.value.colors.e[i].val = Num(5)
    /\ \E i \in 1..Len(parsed.value.colors.e) :
            parsed.value.colors.e[i].val = Str("not-a-color")

\* A document whose token rules have a malformed foreground was parsed, and the
\* theme has the rules.
C17_TokensPassed ==
    /\ pc = "parsed"
    /\ parsed.value.tokenColors
            = Arr(<<Rule(Str("string"), Str("red")), Null>>)

(***************************************************************************)
(* Properties of scope resolution.                                         *)
(***************************************************************************)
\* The entry of the scope table for a name, Undefined when it has none.
TableEntry(name) ==
    IF HasOwn(tokenMapping, name) THEN GetOwn(tokenMapping, name) ELSE Undefined

\* The output key of a scope string: by exact lookup in the scope table first,
\* and only when the scope is not in the table by lookup of the part before its
\* first '.'.
Resolved(name) ==
    IF HasOwn(tokenMapping, name) THEN GetOwn(tokenMapping, name)
    ELSE TableEntry(FirstSegment(name))

\* Two tables agree on every key but the given one.
AgreeExcept(before, after, key) ==
    /\ KeysOf(after) \subseteq KeysOf(before) \cup {key}
    /\ \A k \in KeysOf(before) : k # key => GetOwn(after, k) = GetOwn(before, k)

\* The token rules of the translated theme, and their scope occurrences.
TranslatedRules ==
    IF IsArray(parsed.value.tokenColors) THEN Elements(parsed.value.tokenColors)
    ELSE <<>>

TranslatedOccurrences == Occurrences(TranslatedRules, 1)

\* The output's syntax colors are what the occurrences assigned, and the
\* required keys.
OutputFollowsOccurrences ==
    /\ KeysOf(out.syntaxColors) = KeysOf(AssignedByRules) \cup RequiredSyntaxKeys
    /\ \A k \in KeysOf(AssignedByRules) :
            GetOwn(out.syntaxColors, k) = GetOwn(AssignedByRules, k)

\* The rule's scope field is missing or neither a string nor a list.
HasNoScopes(token) ==
    \/ token.k # "object"
    \/ ~HasOwn(token.e, "scope")
    \/ GetOwn(token.e, "scope").k \notin {"string", "array"}

\* C19: a scope string is mapped by exact lookup in the scope table first and,
\* only when it is not in the table, by the part before its first '.':
\* "constant.character" maps to the character key, "constant.numeric" to the
\* constant-identifier key, "meta.string" to nothing.  A scope that maps to
\* nothing, and any scope of a rule without a (non-empty) foreground, leaves
\* every syntax color unchanged; a missing or non-string, non-list scope field
\* is an empty list.
C19_ScopeResolution ==
    pc = "translated" /\ ~out.threw =>
        LET occ == TranslatedOccurrences
        IN /\ OutputFollowsOccurrences
           /\ \A n \in 1..Len(occ) :
                occ[n].s.k = "string" =>
                    IF Resolved(occ[n].s.s) = Undefined
                        \/ ~Truthy(Get(occ[n].settings, "foreground"))
                    THEN ColorsAfter(occ, n) = ColorsAfter(occ, n - 1)
                    ELSE AgreeExcept(ColorsAfter(occ, n - 1), ColorsAfter(occ, n),
                                     Resolved(occ[n].s.s).s)
           /\ Mapped(Str("constant.character")) = Str("xcode.syntax.character")
           /\ Mapped(Str("constant.numeric")) = Str("xcode.syntax.identifier.constant")
           /\ ~Truthy(Mapped(Str("meta.string")))
           /\ \A i \in 1..Len(TranslatedRules) :
                HasNoScopes(TranslatedRules[i]) => Scopes(TranslatedRules[i]) = <<>>

StringThenTemplate ==
    <<Rule(Str("string"), Str("#FF0000")), Rule(Str("string.template"), Str("#00FF00"))>>

\* C20: a scope that is not literally one of the entries of scopePriority never
\* overwrites an output syntax key that already has a color, unless the scope
\* that produced the existing color is also unlisted.
C20_UnlistedNeverOverwrites ==
    pc = "translated" /\ ~out.threw =>
        LET occ == TranslatedOccurrences
        IN /\ OutputFollowsOccurrences
           /\ Len(scopePriority) = 16
           /\ \A n \in 1..Len(occ) :
                (/\ Matches(occ, n)
                 /\ IndexOf(scopePriority, occ[n].s) = -1
                 /\ HasOwn(ColorsAfter(occ, n - 1), KeyOf(occ, n))
                 /\ IndexOf(scopePriority, Producer(occ, n - 1, KeyOf(occ, n))) # -1)
                => ColorsAfter(occ, n) = ColorsAfter(occ, n - 1)

\* Rules for "string" and then "string.template" with different foregrounds
\* were translated, and the string key has the color of "string".
C20_Witness ==
    /\ pc = "translated"
    /\ ~out.threw
    /\ TranslatedRules = StringThenTemplate
    /\ GetOwn(out.syntaxColors, "xcode.syntax.string") = Str("1 0 0 1")


(***************************************************************************)
(* The effective precedence of the token rules.                            *)
(***************************************************************************)
\* The output keys of the scope table.
OutputSyntaxKeys == {tokenMapping[i].val.s : i \in 1..Len(tokenMapping)}

\* The occurrences that name a color and map to the key, and those of them whose
\* scope is literally an entry of scopePriority.
OccurrencesFor(occ, key) == {n \in 1..Len(occ) : Matches(occ, n) /\ KeyOf(occ, n) = key}

ListedFor(occ, key) ==
    {n \in OccurrencesFor(occ, key) : IndexOf(scopePriority, occ[n].s) # -1}

Latest(S) == CHOOSE n \in S : \A m \in S : m <= n
Earliest(S) == CHOOSE n \in S : \A m \in S : n <= m

\* hexToXcodeColor(settings.foreground) of an occurrence.
ConvertedForeground(occ, n) == hexToXcodeColor(Get(occ[n].settings, "foreground"), Undefined)

\* A scope string maps to the key through the part before its first '.', not
\* by an entry of its own.
MapsThroughFallback(scope, key) ==
    scope.k = "string" =>
        /\ ~HasOwn(tokenMapping, scope.s)
        /\ TableEntry(FirstSegment(scope.s)) = Str(key)

PlainItems(xml) ==
    {i \in 1..ItemCount(xml) :
        StartsWith(Item(xml, i), "<key>xcode.syntax.plain</key>\n<string>")}

\* The item that opens the nested syntax dict.
SyntaxDictAt(xml) == CHOOSE i \in 1..ItemCount(xml) : Item(xml, i) = OpenSyntaxDict

\* The translation of the theme with its token rules removed.
WithoutRules(theme) == generateXcodeTheme([theme EXCEPT !.tokenColors = Arr(<<>>)])

\* C23: xcode.syntax.plain is emitted twice, once among the root entries and
\* once in the nested syntax dict, with equal values, and the token rules do
\* not change either value.
C23_PlainTwice ==
    pc = "translated" /\ ~out.threw =>
        /\ Cardinality(PlainItems(out.xml)) = 2
        /\ \E i, j \in PlainItems(out.xml) :
            /\ i < SyntaxDictAt(out.xml)
            /\ SyntaxDictAt(out.xml) < j
            /\ Item(out.xml, i) = Item(out.xml, j)
            /\ Item(out.xml, i)
                = KeyString("xcode.syntax.plain", GetOwn(out.xcodeColors, "xcode.syntax.plain").s)
        /\ GetOwn(out.syntaxColors, "xcode.syntax.plain")
            = GetOwn(out.xcodeColors, "xcode.syntax.plain")
        /\ ~WithoutRules(parsed.value).threw
        /\ GetOwn(WithoutRules(parsed.value).xcodeColors, "xcode.syntax.plain")
            = GetOwn(out.xcodeColors, "xcode.syntax.plain")
        /\ GetOwn(WithoutRules(parsed.value).syntaxColors, "xcode.syntax.plain")
            = GetOwn(out.syntaxColors, "xcode.syntax.plain")

\* A theme with an editor foreground and a rule that colors a syntax key was
\* translated: the plain color is the converted foreground in both places.
C23_Witness ==
    /\ pc = "translated"
    /\ ~out.threw
    /\ \E n \in 1..Len(TranslatedOccurrences) : Matches(TranslatedOccurrences, n)
    /\ GetOwn(out.xcodeColors, "xcode.syntax.plain") = Str("0.066667 0.133333 0.2 1")
    /\ GetOwn(out.syntaxColors, "xcode.syntax.plain") = Str("0.066667 0.133333 0.2 1")
    /\ GetOwn(out.syntaxColors, "xcode.syntax.string") = Str("1 0 0 1")

\* A decimal numeral of a number in [0,1]: "0", "1", or "0." and digits.
IsDecimalInUnit(t) ==
    \/ t \in {"0", "1"}
    \/ (/\ Len(t) >= 3
        /\ SubSeq(t, 1, 2) = "0."
        /\ \A i \in 3..Len(t) : CharAt(t, i) \in DecimalDigits)

\* Four space-separated decimal numbers, each in [0,1].
IsFloatQuad(v) ==
    /\ v.k = "string"
    /\ Len(SplitOnSpace(v.s)) = 4
    /\ \A i \in 1..4 : IsDecimalInUnit(SplitOnSpace(v.s)[i])

\* The foreground of the occurrence is a string that is not a hex color.
HasMalformedForeground(occ, n) ==
    /\ Get(occ[n].settings, "foreground").k = "string"
    /\ ~IsValidHexColor(Get(occ[n].settings, "foreground").s)

\* C24: every color value that translate emits, at the root and in the nested
\* syntax dict, is a float quad, whatever the theme's color values are; a token
\* rule with a malformed foreground that stores a color for its key stores
\* "1 1 1 1".
C24_FloatQuads ==
    pc = "translated" /\ ~out.threw =>
        /\ \A i \in 1..Len(out.xcodeColors) : IsFloatQuad(out.xcodeColors[i].val)
        /\ \A i \in 1..Len(out.syntaxColors) : IsFloatQuad(out.syntaxColors[i].val)
        /\ \A n \in 1..Len(TranslatedOccurrences) :
                Stores(TranslatedOccurrences, n) /\ HasMalformedForeground(TranslatedOccurrences, n)
                => GetOwn(ColorsAfter(TranslatedOccurrences, n), KeyOf(TranslatedOccurrences, n))
                        = Str("1 1 1 1")

\* C25: the set of keys of the nested syntax dict is closed: for any scope
\* strings, each emitted syntax key is one of the eleven output keys of the
\* scope table or xcode.syntax.plain, and a key outside the seven required ones
\* is there only if the scope of some rule with a color maps to it.
C25_ClosedKeys ==
    pc = "translated" /\ ~out.threw =>
        /\ Cardinality(OutputSyntaxKeys) = 11
        /\ KeysOf(out.syntaxColors) \subseteq OutputSyntaxKeys \cup {"xcode.syntax.plain"}
        /\ \A key \in KeysOf(out.syntaxColors) \ RequiredSyntaxKeys :
                \E n \in 1..Len(TranslatedOccurrences) :
                    /\ TranslatedOccurrences[n].s.k = "string"
                    /\ Truthy(Get(TranslatedOccurrences[n].settings, "foreground"))
                    /\ Resolved(TranslatedOccurrences[n].s.s) = Str(key)

\* The items of the document that carry the theme's name.
NameItems(xml) ==
    {i \in 1..ItemCount(xml) : StartsWith(Item(xml, i), "<key>XCThemeName</key>\n<string>")}

\* C26: for every input that parseVscodeTheme accepts the name of the returned
\* theme is not empty, so the translation of a parsed theme contains exactly
\* one XCThemeName entry, with that name; a document without a name entry comes
\* only from a theme whose name a caller replaced.
C26_NameEntry ==
    pc \in {"parsed", "translated"} /\ ~parsed.threw =>
        /\ Truthy(parsed.value.name)
        /\ parsed.value.name # Str("")
        /\ pc = "translated" /\ ~out.threw =>
            /\ Cardinality(NameItems(out.xml)) = 1
            /\ Item(out.xml, ItemCount(out.xml))
                = KeyString("XCThemeName", JSToString(parsed.value.name))

\* A document with an empty name was parsed and translated: the output names
\* the theme "Untitled Theme".
C26_Witness ==
    /\ pc = "translated"
    /\ ~out.threw
    /\ Get(json, "name") = Str("")
    /\ NameItems(out.xml) = {ItemCount(out.xml)}
    /\ Item(out.xml, ItemCount(out.xml)) = KeyString("XCThemeName", "Untitled Theme")

(***************************************************************************)
(* Properties of the App's convert action.                                 *)
(***************************************************************************)
\* The name the download of a theme is to carry.
NameOfDownload(theme) ==
    IF theme.name = Str("") THEN "theme.xccolortheme"
    ELSE JSToString(theme.name) \o ".xccolortheme"

\* The conversions that have been started and not yet run.
ConvertTimers(callbacks) == {i \in 1..Len(callbacks) : callbacks[i].kind = "convertTimer"}

\* The step offers one download: that of a started conversion, under the name of
\* the theme it converts.
OffersNamedDownload ==
    \E i \in ConvertTimers(pending) :
        downloads' = Append(downloads, Download(NameOfDownload(pending[i].theme),
                                                generateXcodeTheme(pending[i].theme).xml))

\* C18: a download is the document of a theme whose conversion was started,
\* named "<theme name>.xccolortheme", and "theme.xccolortheme" when that name is
\* empty; while no parsed theme is present no step starts a conversion, and the
\* convert action changes nothing.
C18_ConvertDownload ==
    [][/\ downloads' # downloads => OffersNamedDownload
       /\ app.parsedTheme = Null =>
            /\ Cardinality(ConvertTimers(pending')) <= Cardinality(ConvertTimers(pending))
            /\ handleConvert => UNCHANGED <<app, pending, downloads>>]_vars

\* A theme without a name, read from the file ".json", has been downloaded.
C18_Witness ==
    /\ app.parsedTheme # Null
    /\ app.parsedTheme.name = Str("")
    /\ \E i \in 1..Len(downloads) : downloads[i].filename = "theme.xccolortheme"


(***************************************************************************)
(* Properties of the App under interleaved inputs and callbacks.           *)
(***************************************************************************)
\* Neither busy flag is set.
Idle == ~app.isProcessing /\ ~app.isFetchingUrl

\* The theme is what handleFileSelected stores for the file.
ParsedFromFile(theme, file) ==
    /\ file.content.kind = "json"
    /\ ~parseVscodeTheme(file.content.json).threw
    /\ theme = NamedAfterFile(file.content.json, parseVscodeTheme(file.content.json).value, file)

\* The theme is what handleFetchFromUrl stores for some response to a request
\* for some URL.
ParsedFromUrl(theme) ==
    \E url \in AppUrls, response \in AppResponses :
        /\ ~FetchThrows(response)
        /\ theme = NamedAfterUrl(Get(response.data, "themeJson"),
                                 parseVscodeTheme(Get(response.data, "themeJson")).value, url)

\* C27: under any interleaving of file selections, file drops, URL fetches and
\* their callbacks, whenever both busy flags are false and parsedTheme is not
\* null, parsedTheme was parsed from the most recently chosen source: the
\* current selectedFile, or the fetched URL when no file is selected.
C27_LatestSource ==
    pc = "app" /\ Idle /\ app.parsedTheme # Null =>
        IF app.selectedFile # Null THEN ParsedFromFile(app.parsedTheme, app.selectedFile)
        ELSE ParsedFromUrl(app.parsedTheme)


\* The callbacks the claim names: a file read, a 500 ms parse timer, a 300 ms
\* download-generation timer.
IsWork(callback) == callback.kind \in {"reader", "parseTimer", "convertTimer"}

\* isActionButtonDisabled and isInputDisabled
ConvertDisabled == app.parsedTheme = Null \/ app.isProcessing \/ app.isFetchingUrl
InputsDisabled == app.isProcessing \/ app.isFetchingUrl

\* C28: isProcessing is true in every state in which a file read, a 500 ms
\* parse timer or a 300 ms download-generation timer is pending, so the convert
\* action and the inputs are disabled until all pending work has completed.
C28_BusyWhilePending ==
    pc = "app" /\ (\E i \in 1..Len(pending) : IsWork(pending[i])) =>
        /\ app.isProcessing
        /\ ConvertDisabled
        /\ InputsDisabled


\* C29: the busy flags always clear: provided reads end, timers fire and the
\* request settles, after any file selection, URL fetch or convert action
\* isProcessing and isFetchingUrl are eventually both false, on the success path
\* and on every error path.
C29_FlagsClear == (pc = "app" /\ ~Idle) ~> Idle

\* A conversion that failed in the generator has ended: its message is shown,
\* nothing is pending and both flags are false.
C29_Witness ==
    /\ pc = "app"
    /\ app.parseError = Str("Failed to generate Xcode theme.")
    /\ pending = <<>>
    /\ Idle

(***************************************************************************)
(* Properties of the fetch-theme handler.                                  *)
(***************************************************************************)
\* The handler has returned, or its promise has rejected.
HandlerOver == pc = "api" /\ api.phase \in {"done", "threw"}

\* req.body carries a non-empty string url.
HasUrl(body) ==
    /\ body.k \notin {"undefined", "null"}
    /\ Get(body, "url").k = "string"
    /\ Get(body, "url").s # ""

\* The handler reached the upstream server and has its response.
HasUpstream == api.upstream # NoUpstream

\* The status the description gives the request and what came of its fetch.
DescribedStatuses ==
    IF api.method = "OPTIONS" THEN {200}
    ELSE IF api.method # "POST" THEN {405}
    ELSE IF ~HasUrl(api.body) THEN {400}
    ELSE IF ~IsUrl(Get(api.body, "url").s) THEN {400}
    ELSE IF ~HasUpstream THEN {500}
    ELSE IF ~api.upstream.ok THEN {api.upstream.status}
    ELSE IF ~SuggestsJson(api.upstream.contentType, api.upstream.text.raw) THEN {400, 500}
    ELSE IF Len(api.upstream.text.errors) > 0 THEN {400, 500}
    ELSE {200, 500}

\* C30: for every request the fetch-theme handler sends exactly one response:
\* 200 for OPTIONS, 405 for another method that is not POST, 400 for a POST
\* without a non-empty string url or with a url that is not a URL, the upstream
\* status for a non-OK upstream response, 400 for content that does not suggest
\* JSON or has JSONC parse errors, 500 for a network or unexpected error, and
\* 200 with themeJson only for an OK upstream response parsed without errors.
C30_OneResponse ==
    HandlerOver =>
        /\ Len(api.sent) = 1
        /\ api.sent[1].status \in DescribedStatuses
        /\ (api.sent[1].status = 200 /\ api.method = "POST") =>
              /\ api.upstream.ok
              /\ Len(api.upstream.text.errors) = 0
              /\ api.sent[1].body = Obj(<<Entry("themeJson", api.upstream.text.value)>>)

====
